---- MODULE Spec2Model ----
(***************************************************************************)
(* bootkitd: the grub configuration document (src/src/grub2/mod.rs,        *)
(* GrubFile / KeyValue / GrubLine) and the boot-entry catalog              *)
(* (GrubBootEntry / GrubBootEntries); the event coordinator                *)
(* (src/src/events/mod.rs, BootkitEvents) with the driver that shuts it    *)
(* down (src/src/main.rs); and the time argument (src/src/config/time.rs). *)
(*                                                                         *)
(* A Rust string is a sequence of one-character strings; the keywords of   *)
(* the menu grammar ("menuentry", "submenu", "saved_entry") are single     *)
(* elements of such a sequence.                                            *)
(***************************************************************************)
EXTENDS Integers, Sequences, FiniteSets, TLC

VARIABLES
    file,      \* GrubFile: the text handed to GrubFile::new
    fpc,       \* GrubFile: "text" before GrubFile::new, then "doc" or "err"
    doc,       \* GrubFile: the document [lines, keyvals] (self of set_key_value)
    ferr,      \* GrubFile: the error GrubFile::new returned
    last,      \* GrubFile: the last call made, with the document it was made on
    edits,     \* GrubFile: number of set_key_value calls made so far
    cfg,       \* catalog: read_to_string of /boot/grub2/grub.cfg, <<>> or <<contents>>
    env,       \* catalog: read_to_string of /boot/grub2/grubenv, <<>> or <<contents>>
    bpc,       \* catalog: "query" before GrubBootEntries::new, then "ok" or "err"
    catalog,   \* catalog: what GrubBootEntries::new returned
    pos,       \* catalog: number of lines the loop of parse_entries has read
    pst,       \* catalog: the locals of parse_entries (entries, submenus,
               \*          menuentry_open)
    shutdown,  \* events: BootkitEvents.shutdown, the shared AtomicBool
    holders,   \* events: who holds a clone of the zbus Connection
    timeout,   \* events: config.allowed_idle_time(), <<>> or <<milliseconds>>
    workers,   \* events: number of worker threads of the tokio runtime
    mainPc,    \* events: where main is
    event_res, \* events: what listen_events returned to main
    filesPc,   \* events: where the task of listen_files is
    batch,     \* events: the batch read_events returned last, with the number
               \*         of its events the for loop has seen, the number of
               \*         file_changed emissions begun for it and the number of
               \*         those that were sent
    nread,     \* events: number of batches read_events returned so far
    attempts,  \* events: number of file_changed emissions made so far
    signaled,  \* events: the local of listen_files_loop
    sent,      \* events: number of file_changed emissions that succeeded
    late,      \* events: number of read_events calls made with the flag set
    idlePc,    \* events: where the task of detect_idle_connection is
    counter,   \* events: the local of detect_idle_connection
    active,    \* events: intervals in which connection activity was observed
    quiet,     \* events: the latest intervals, in a row, with no activity observed
    targ,      \* time: the argument of TimeConfig::from_str
    tchecks,   \* time: whether the build checks integer overflow
    tpc,       \* time: "arg" before TimeConfig::from_str, then "done"
    tres       \* time: what TimeConfig::from_str returned

fileVars == <<file, fpc, doc, ferr, last, edits>>
bootVars == <<cfg, env, bpc, catalog, pos, pst>>
eventVars == <<shutdown, holders, timeout, workers, mainPc, event_res, filesPc, batch, nread,
               attempts, signaled, sent, late, idlePc, counter, active, quiet>>
timeVars == <<targ, tchecks, tpc, tres>>
vars == <<fileVars, bootVars, eventVars, timeVars>>

---------------------------------------------------------------------------
(* Bounds of the model *)

\* longest configuration text
MaxLen == 5
\* most set_key_value calls on one document
MaxEdits == 2
\* most lines of a menu source
MaxMenuLines == 6
\* most lines of a menu source that is read together with a varied grubenv
MaxSelMenuLines == 2
\* most lines of a grubenv
MaxEnvLines == 2
\* an index at or above this is kept as this: it is past every entry list
IndexCap == 1000000

---------------------------------------------------------------------------
(* Strings *)

\* the characters configuration texts are made of
Alphabet == {"a", "=", "\"", "'", " ", "#", "\n"}

\* all strings over S of length at most n
StringsUpTo(S, n) == UNION {[1..k -> S] : k \in 0..n}

\* char::is_whitespace, on the characters that occur
IsWhitespace(c) == c \in {" ", "\t", "\r", "\n", "NBSP"}

RECURSIVE TrimStart(_)
TrimStart(s) ==
    IF s = <<>> THEN s
    ELSE IF IsWhitespace(Head(s)) THEN TrimStart(Tail(s)) ELSE s

RECURSIVE TrimEnd(_)
TrimEnd(s) ==
    IF s = <<>> THEN s
    ELSE IF IsWhitespace(s[Len(s)]) THEN TrimEnd(SubSeq(s, 1, Len(s) - 1)) ELSE s

\* str::trim
Trim(s) == TrimEnd(TrimStart(s))

\* the first position of the character c in s from position i on, 0 when absent
RECURSIVE FindFrom(_, _, _)
FindFrom(s, c, i) ==
    IF i > Len(s) THEN 0
    ELSE IF s[i] = c THEN i ELSE FindFrom(s, c, i + 1)

\* str::find of one character: its first position, 0 when absent
Find(s, c) == FindFrom(s, c, 1)

\* Split as str::lines would cut: no empty segment after a final c
RECURSIVE SplitNoTrailing(_, _)
SplitNoTrailing(s, c) ==
    IF s = <<>> THEN <<>>
    ELSE LET i == Find(s, c)
         IN  IF i = 0 THEN <<s>>
             ELSE <<SubSeq(s, 1, i - 1)>> \o SplitNoTrailing(SubSeq(s, i + 1, Len(s)), c)

\* str::split(c): every segment, a trailing empty one included
RECURSIVE Split(_, _)
Split(s, c) ==
    LET i == Find(s, c)
    IN  IF i = 0 THEN <<s>>
        ELSE <<SubSeq(s, 1, i - 1)>> \o Split(SubSeq(s, i + 1, Len(s)), c)

\* str::split_once(c): <<>> for None, else <<before, after>> of the first c
SplitOnce(s, c) ==
    LET i == Find(s, c)
    IN  IF i = 0 THEN <<>>
        ELSE <<SubSeq(s, 1, i - 1), SubSeq(s, i + 1, Len(s))>>

\* str::replace(chars, ""): every occurrence of a character of cs removed
RECURSIVE Remove(_, _)
Remove(s, cs) ==
    IF s = <<>> THEN <<>>
    ELSE IF Head(s) \in cs THEN Remove(Tail(s), cs)
         ELSE <<Head(s)>> \o Remove(Tail(s), cs)

\* [String]::join(sep)
RECURSIVE Join(_, _)
Join(ss, sep) ==
    IF ss = <<>> THEN <<>>
    ELSE IF Len(ss) = 1 THEN ss[1]
         ELSE ss[1] \o sep \o Join(Tail(ss), sep)

\* number of occurrences of c in s
Count(s, c) == Cardinality({i \in 1..Len(s) : s[i] = c})

---------------------------------------------------------------------------
(* KeyValue *)

\* DError::grub_parse_error(ctx, format!("Expected '=' on line: {}", n))
ExpectedEq(n) == [kind |-> "grub_parse_error", msg |-> "Expected '=' on line: ", line |-> n]

\* KeyValue::parse naming the zero-based line in its error
KeyValue_parse_ZeroBased(kv) ==
    LET trimmed == Trim(kv.original)
        split == SplitOnce(trimmed, "=")
    IN  IF split = <<>>
        THEN [ok |-> FALSE, err |-> ExpectedEq(kv.line)]
        ELSE [ok |-> TRUE,
              kv |-> [kv EXCEPT !.key = split[1],
                                !.value = Remove(split[2], {"'", "\""})]]

\* KeyValue::parse that removes the quotes from the key as well
KeyValue_parse_StripKey(kv) ==
    LET trimmed == Trim(kv.original)
        split == SplitOnce(trimmed, "=")
    IN  IF split = <<>>
        THEN [ok |-> FALSE, err |-> ExpectedEq(kv.line + 1)]
        ELSE [ok |-> TRUE,
              kv |-> [kv EXCEPT !.key = Remove(split[1], {"'", "\""}),
                                !.value = Remove(split[2], {"'", "\""})]]

\* KeyValue::parse that leaves the quotes in the value
KeyValue_parse_KeepQuotes(kv) ==
    LET trimmed == Trim(kv.original)
        split == SplitOnce(trimmed, "=")
    IN  IF split = <<>>
        THEN [ok |-> FALSE, err |-> ExpectedEq(kv.line + 1)]
        ELSE [ok |-> TRUE,
              kv |-> [kv EXCEPT !.key = split[1], !.value = split[2]]]

\* KeyValue::parse on a KeyValue whose original is set
KeyValue_parse(kv) ==
    LET trimmed == Trim(kv.original)
        split == SplitOnce(trimmed, "=")
    IN  IF split = <<>>
        THEN [ok |-> FALSE, err |-> ExpectedEq(kv.line + 1)]
        ELSE [ok |-> TRUE,
              kv |-> [kv EXCEPT !.key = split[1],
                                !.value = Remove(split[2], {"'", "\""})]]

\* KeyValue::new(line, original)
KeyValue_new(line, original) ==
    KeyValue_parse([line |-> line, original |-> original, changed |-> FALSE,
                    key |-> <<>>, value |-> <<>>])

\* KeyValue::from_key_val leaving the new entry unchanged
from_key_val_Unchanged(line, key, value) ==
    [line |-> line, original |-> <<>>, changed |-> FALSE, key |-> key, value |-> value]

\* KeyValue::from_key_val(line, key, value)
from_key_val(line, key, value) ==
    [line |-> line, original |-> <<>>, changed |-> TRUE, key |-> key, value |-> value]

\* KeyValue::update that flips the changed flag on every change of the value
KeyValue_update_Toggle(kv, value) ==
    IF kv.value # value
    THEN [kv EXCEPT !.changed = ~kv.changed, !.value = value]
    ELSE kv

\* KeyValue::update without the comparison of the values
KeyValue_update_Always(kv, value) == [kv EXCEPT !.changed = TRUE, !.value = value]

\* KeyValue::update(value)
KeyValue_update(kv, value) ==
    IF kv.value # value
    THEN [kv EXCEPT !.changed = TRUE, !.value = value]
    ELSE kv

\* From<&KeyValue> for String without the changed test
KeyValueToString_Always(kv) == kv.key \o <<"=", "\"">> \o kv.value \o <<"\"">>

\* impl From<&KeyValue> for String
KeyValueToString(kv) ==
    IF ~kv.changed THEN kv.original
    ELSE kv.key \o <<"=", "\"">> \o kv.value \o <<"\"">>

---------------------------------------------------------------------------
(* GrubLine *)

LineKeyValue(kv) == [t |-> "KeyValue", kv |-> kv]
LineString(raw) == [t |-> "String", raw_line |-> raw]

\* impl From<&GrubLine> for String
GrubLineToString(l) ==
    IF l.t = "KeyValue" THEN KeyValueToString(l.kv) ELSE l.raw_line

---------------------------------------------------------------------------
(* GrubFile *)

\* an insert that keeps the value a key already has
Insert_KeepFirst(m, k, v) == [x \in (DOMAIN m) \cup {k} |-> IF x \in DOMAIN m THEN m[x] ELSE v]

\* HashMap::insert
Insert(m, k, v) == [x \in (DOMAIN m) \cup {k} |-> IF x = k THEN v ELSE m[x]]

EmptyMap == [x \in {} |-> <<>>]

\* the loop of GrubFile::new over file.split('\n').enumerate(), from index idx
RECURSIVE NewLoop(_, _, _, _)
NewLoop(segs, idx, lines, keyvals) ==
    IF idx = Len(segs) THEN [ok |-> TRUE, doc |-> [lines |-> lines, keyvals |-> keyvals]]
    ELSE LET line == segs[idx + 1]
             trimmed == Trim(line)
         IN  IF trimmed = <<>> \/ Head(trimmed) = "#"
             THEN NewLoop(segs, idx + 1, Append(lines, LineString(line)), keyvals)
             ELSE LET r == KeyValue_new(idx, line)
                  IN  IF ~r.ok THEN [ok |-> FALSE, err |-> r.err]
                      ELSE NewLoop(segs, idx + 1,
                                   Append(lines, LineKeyValue(r.kv)),
                                   Insert(keyvals, r.kv.key, r.kv))

\* GrubFile::new(file)
GrubFile_new(text) == NewLoop(Split(text, "\n"), 0, <<>>, EmptyMap)

\* set_key_value that updates the mapping's copy only
set_key_value_MapOnly(d, key, value) ==
    IF key \in DOMAIN d.keyvals
    THEN [lines |-> d.lines,
          keyvals |-> [d.keyvals EXCEPT ![key] = KeyValue_update(d.keyvals[key], value)]]
    ELSE LET keyval == from_key_val(Len(d.lines), key, value)
         IN  [lines |-> Append(d.lines, LineKeyValue(keyval)),
              keyvals |-> Insert(d.keyvals, keyval.key, keyval)]

\* set_key_value that updates the line's copy only
set_key_value_LineOnly(d, key, value) ==
    IF key \in DOMAIN d.keyvals
    THEN LET at == d.keyvals[key].line + 1
             l == d.lines[at]
         IN  [lines |-> IF l.t = "KeyValue"
                        THEN [d.lines EXCEPT ![at] = LineKeyValue(KeyValue_update(l.kv, value))]
                        ELSE d.lines,
              keyvals |-> d.keyvals]
    ELSE LET keyval == from_key_val(Len(d.lines), key, value)
         IN  [lines |-> Append(d.lines, LineKeyValue(keyval)),
              keyvals |-> Insert(d.keyvals, keyval.key, keyval)]

\* GrubFile::set_key_value(key, value)
set_key_value(d, key, value) ==
    IF key \in DOMAIN d.keyvals
    THEN LET keyval == KeyValue_update(d.keyvals[key], value)
             at == keyval.line + 1
             l == d.lines[at]
         IN  [lines |-> IF l.t = "KeyValue"
                        THEN [d.lines EXCEPT ![at] = LineKeyValue(KeyValue_update(l.kv, value))]
                        ELSE d.lines,
              keyvals |-> [d.keyvals EXCEPT ![key] = keyval]]
    ELSE LET keyval == from_key_val(Len(d.lines), key, value)
         IN  [lines |-> Append(d.lines, LineKeyValue(keyval)),
              keyvals |-> Insert(d.keyvals, keyval.key, keyval)]

\* self.lines[keyval.line] of set_key_value is out of bounds: the call panics
IndexPanics(d, key) == key \in DOMAIN d.keyvals /\ d.keyvals[key].line >= Len(d.lines)

\* the loop of GrubFile::from_lines over grub_lines
RECURSIVE FromLinesLoop(_, _, _)
FromLinesLoop(grub_lines, lines, keyvals) ==
    IF grub_lines = <<>> THEN [lines |-> lines, keyvals |-> keyvals]
    ELSE LET line == Head(grub_lines)
         IN  FromLinesLoop(Tail(grub_lines),
                           Append(lines, line),
                           IF line.t = "KeyValue"
                           THEN Insert(keyvals, line.kv.key, line.kv)
                           ELSE keyvals)

\* GrubFile::from_lines(grub_lines)
from_lines(grub_lines) == FromLinesLoop(grub_lines, <<>>, EmptyMap)

\* GrubFile::lines
lines(d) == d.lines

\* GrubFile::keyvalues
keyvalues(d) == d.keyvals

\* GrubFile::as_string
as_string(d) ==
    Join([i \in 1..Len(lines(d)) |-> GrubLineToString(lines(d)[i])], <<"\n">>)

---------------------------------------------------------------------------
(* More strings: the helpers of the boot-entry catalog *)

\* all sequences over S of length at most n
SeqsUpTo(S, n) == UNION {[1..k -> S] : k \in 0..n}

\* the concatenation of a sequence of strings
RECURSIVE Concat(_)
Concat(ss) == IF ss = <<>> THEN <<>> ELSE Head(ss) \o Concat(Tail(ss))

\* str::starts_with(p), p one character or one keyword
StartsWith(s, p) == s # <<>> /\ s[1] = p

\* str::strip_suffix('\r') as str::lines applies it
StripCR(s) == IF s # <<>> /\ s[Len(s)] = "\r" THEN SubSeq(s, 1, Len(s) - 1) ELSE s

\* the lines of s from position i on, as str::lines gives them
RECURSIVE LinesFrom(_, _)
LinesFrom(s, i) ==
    IF i > Len(s) THEN <<>>
    ELSE LET j == FindFrom(s, "\n", i)
         IN  IF j = 0 THEN <<SubSeq(s, i, Len(s))>>
             ELSE <<StripCR(SubSeq(s, i, j - 1))>> \o LinesFrom(s, j + 1)

\* str::lines: split after each '\n'; the line ending ("\n" or "\r\n") is
\* dropped, and a text ending in '\n' has no empty last line
Lines(s) == LinesFrom(s, 1)

Digits == {"0", "1", "2", "3", "4", "5", "6", "7", "8", "9"}

DigitVal(c) ==
    CASE c = "0" -> 0 [] c = "1" -> 1 [] c = "2" -> 2 [] c = "3" -> 3 [] c = "4" -> 4
      [] c = "5" -> 5 [] c = "6" -> 6 [] c = "7" -> 7 [] c = "8" -> 8 [] c = "9" -> 9

\* usize::MAX = 2^64 - 1, in decimal digits
UsizeMaxDigits ==
    <<"1", "8", "4", "4", "6", "7", "4", "4", "0", "7",
      "3", "7", "0", "9", "5", "5", "1", "6", "1", "5">>

RECURSIVE StripZeros(_)
StripZeros(s) == IF s # <<>> /\ Head(s) = "0" THEN StripZeros(Tail(s)) ELSE s

\* a > b for two digit strings of the same length
RECURSIVE DigitsGreater(_, _)
DigitsGreater(a, b) ==
    IF a = <<>> THEN FALSE
    ELSE IF DigitVal(Head(a)) # DigitVal(Head(b)) THEN DigitVal(Head(a)) > DigitVal(Head(b))
         ELSE DigitsGreater(Tail(a), Tail(b))

\* the number a digit string denotes, kept at IndexCap from there on
RECURSIVE DigitsValue(_, _)
DigitsValue(s, acc) ==
    IF s = <<>> THEN acc
    ELSE LET v == acc * 10 + DigitVal(Head(s))
         IN  DigitsValue(Tail(s), IF v >= IndexCap THEN IndexCap ELSE v)

\* str::parse::<usize>: <<>> for Err, <<n>> for Ok(n). An optional '+', then
\* decimal digits only, and the number must fit in 64 bits.
ParseUsize(s) ==
    LET body == IF StartsWith(s, "+") THEN Tail(s) ELSE s
        sig == StripZeros(body)
    IN  IF body = <<>> \/ \E i \in 1..Len(body) : body[i] \notin Digits THEN <<>>
        ELSE IF Len(sig) > Len(UsizeMaxDigits) THEN <<>>
        ELSE IF Len(sig) = Len(UsizeMaxDigits) /\ DigitsGreater(sig, UsizeMaxDigits) THEN <<>>
        ELSE <<DigitsValue(sig, 0)>>

\* Regex::new(kw\s+'([^']+)).captures(line)[1]: <<>> when nothing matches,
\* else <<name>> of the leftmost match; the name runs to the next ' or to the
\* end of the line
RegexCapture(line, kw) ==
    LET n == Len(line)
        \* the position of the ' that ends kw\s+' started at p, 0 when none
        quote(p) ==
            IF \E q \in (p + 2)..n : /\ line[q] = "'"
                                     /\ \A j \in (p + 1)..(q - 1) : IsWhitespace(line[j])
            THEN CHOOSE q \in (p + 2)..n : /\ line[q] = "'"
                                           /\ \A j \in (p + 1)..(q - 1) : IsWhitespace(line[j])
            ELSE 0
        matches(p) == /\ line[p] = kw
                      /\ quote(p) # 0
                      /\ quote(p) < n
                      /\ line[quote(p) + 1] # "'"
        starts == {p \in 1..n : matches(p)}
    IN  IF starts = {} THEN <<>>
        ELSE LET p == CHOOSE x \in starts : \A y \in starts : x <= y
                 from == quote(p) + 1
                 rest == SubSeq(line, from, n)
                 stop == Find(rest, "'")
             IN  <<IF stop = 0 THEN rest ELSE SubSeq(rest, 1, stop - 1)>>

---------------------------------------------------------------------------
(* GrubBootEntry *)

\* GrubBootEntry::new(entry, submenus)
GrubBootEntry_new(entry, submenus) == [entry |-> entry, submenus |-> submenus]

\* the locals of parse_entries before its loop
ParseStart == [entries |-> <<>>, submenus |-> <<>>, menuentry_open |-> FALSE]

\* a pop that removes the outermost element
Pop_Outer(v) == IF v = <<>> THEN v ELSE Tail(v)

\* Vec::pop, the popped value dropped
Pop(v) == IF v = <<>> THEN v ELSE SubSeq(v, 1, Len(v) - 1)

\* the loop body of parse_entries with a closing brace that always pops
ParseLine_AlwaysPop(st, raw) ==
    LET line == Trim(raw)
    IN  IF StartsWith(line, "}")
        THEN [st EXCEPT !.menuentry_open = FALSE, !.submenus = Pop(@)]
        ELSE IF StartsWith(line, "menuentry")
        THEN LET capture == RegexCapture(line, "menuentry")
             IN  IF capture # <<>>
                 THEN [st EXCEPT !.menuentry_open = TRUE,
                                 !.entries = Append(@, GrubBootEntry_new(capture[1], st.submenus))]
                 ELSE [st EXCEPT !.menuentry_open = TRUE]
        ELSE IF StartsWith(line, "submenu")
        THEN LET capture == RegexCapture(line, "submenu")
             IN  IF capture # <<>>
                 THEN [st EXCEPT !.submenus = Append(@, capture[1])]
                 ELSE st
        ELSE st

\* the loop body with menuentry_open set only for a line that entry_re matches
ParseLine_KeepFlag(st, raw) ==
    LET line == Trim(raw)
    IN  IF StartsWith(line, "}")
        THEN IF st.menuentry_open
             THEN [st EXCEPT !.menuentry_open = FALSE]
             ELSE [st EXCEPT !.submenus = Pop(@)]
        ELSE IF StartsWith(line, "menuentry")
        THEN LET capture == RegexCapture(line, "menuentry")
             IN  IF capture # <<>>
                 THEN [st EXCEPT !.menuentry_open = TRUE,
                                 !.entries = Append(@, GrubBootEntry_new(capture[1], st.submenus))]
                 ELSE st
        ELSE IF StartsWith(line, "submenu")
        THEN LET capture == RegexCapture(line, "submenu")
             IN  IF capture # <<>>
                 THEN [st EXCEPT !.submenus = Append(@, capture[1])]
                 ELSE st
        ELSE st

\* one iteration of the loop of parse_entries, on the untrimmed line
ParseLine(st, raw) ==
    LET line == Trim(raw)
    IN  IF StartsWith(line, "}")
        THEN IF st.menuentry_open
             THEN [st EXCEPT !.menuentry_open = FALSE]
             ELSE [st EXCEPT !.submenus = Pop(@)]
        ELSE IF StartsWith(line, "menuentry")
        THEN LET capture == RegexCapture(line, "menuentry")
             IN  IF capture # <<>>
                 THEN [st EXCEPT !.menuentry_open = TRUE,
                                 !.entries = Append(@, GrubBootEntry_new(capture[1], st.submenus))]
                 ELSE [st EXCEPT !.menuentry_open = TRUE]
        ELSE IF StartsWith(line, "submenu")
        THEN LET capture == RegexCapture(line, "submenu")
             IN  IF capture # <<>>
                 THEN [st EXCEPT !.submenus = Append(@, capture[1])]
                 ELSE st
        ELSE st

\* the locals of parse_entries after its loop has read the lines ls
RECURSIVE ParseLoop(_, _)
ParseLoop(st, ls) == IF ls = <<>> THEN st ELSE ParseLoop(ParseLine(st, Head(ls)), Tail(ls))

\* GrubBootEntry::parse_entries(contents)
parse_entries(contents) == ParseLoop(ParseStart, Lines(contents)).entries

\* GrubBootEntry::entry
entry(e) == e.entry

\* GrubBootEntry::full_path
full_path(e) ==
    IF e.submenus = <<>> THEN e.entry
    ELSE Join(e.submenus, <<">">>) \o <<">">> \o e.entry

---------------------------------------------------------------------------
(* GrubBootEntries *)

\* a file read_to_string cannot read
IoError(ctx) == [kind |-> "io_error", msg |-> ctx]
GrubParseError(msg) == [kind |-> "grub_parse_error", msg |-> msg]

\* the first line of contents that starts with saved_entry: <<>> or <<line>>
FindSavedEntry(contents) ==
    LET ls == Lines(contents)
        hits == {i \in 1..Len(ls) : StartsWith(ls[i], "saved_entry")}
    IN  IF hits = {} THEN <<>>
        ELSE <<ls[CHOOSE i \in hits : \A j \in hits : i <= j]>>

\* the closure without its test for an empty value
SavedEntryValue_NoEmptyTest(line) ==
    LET split == SplitOnce(line, "=")
    IN  IF split = <<>>
        THEN [ok |-> FALSE,
              err |-> GrubParseError("Malformed grubenv. Expected '=' after saved_entry")]
        ELSE LET value == Trim(split[2])
                 index == ParseUsize(value)
             IN  IF index # <<>>
                 THEN [ok |-> TRUE, t |-> "Index", index |-> index[1]]
                 ELSE [ok |-> TRUE, t |-> "Name", name |-> value]

\* the closure GrubBootEntries::new maps over the saved_entry line
SavedEntryValue(line) ==
    LET split == SplitOnce(line, "=")
    IN  IF split = <<>>
        THEN [ok |-> FALSE,
              err |-> GrubParseError("Malformed grubenv. Expected '=' after saved_entry")]
        ELSE LET value == Trim(split[2])
                 index == ParseUsize(value)
             IN  IF value = <<>>
                 THEN [ok |-> FALSE,
                       err |-> GrubParseError("Malformed grubenv. Expected value after saved_entry")]
                 ELSE IF index # <<>>
                 THEN [ok |-> TRUE, t |-> "Index", index |-> index[1]]
                 ELSE [ok |-> TRUE, t |-> "Name", name |-> value]

\* get counting the entries from one
Get_OneBased(entries, idx) ==
    IF 1 <= idx /\ idx <= Len(entries) THEN <<entries[idx]>> ELSE <<>>

\* <[GrubBootEntry]>::get(idx).cloned(): <<>> for None
Get(entries, idx) == IF idx < Len(entries) THEN <<entries[idx + 1]>> ELSE <<>>

\* find comparing the name with the full path of each entry
FindByName_FullPath(entries, name) ==
    LET hits == {i \in 1..Len(entries) : full_path(entries[i]) = name}
    IN  IF hits = {} THEN <<>>
        ELSE <<entries[CHOOSE i \in hits : \A j \in hits : i <= j]>>

\* entries.iter().find(|entry| entry.entry() == name).cloned(): <<>> for None
FindByName(entries, name) ==
    LET hits == {i \in 1..Len(entries) : entry(entries[i]) = name}
    IN  IF hits = {} THEN <<>>
        ELSE <<entries[CHOOSE i \in hits : \A j \in hits : i <= j]>>

\* GrubBootEntries::new, on what read_to_string returns for grub.cfg and for
\* grubenv: <<>> for Err, <<contents>> for Ok(contents)
GrubBootEntries_new(cfgFile, envFile) ==
    IF cfgFile = <<>> THEN [ok |-> FALSE, err |-> IoError("Cannot read /boot/grub2/grub.cfg")]
    ELSE LET entries == parse_entries(cfgFile[1])
         IN  IF envFile = <<>>
             THEN [ok |-> FALSE, err |-> IoError("Cannot read /boot/grub2/grubenv")]
             ELSE LET found == FindSavedEntry(envFile[1])
                  IN  IF found = <<>>
                      THEN [ok |-> TRUE, entries |-> entries, selected |-> <<>>]
                      ELSE LET value == SavedEntryValue(found[1])
                           IN  IF ~value.ok THEN [ok |-> FALSE, err |-> value.err]
                               ELSE [ok |-> TRUE,
                                     entries |-> entries,
                                     selected |-> IF value.t = "Index"
                                                  THEN Get(entries, value.index)
                                                  ELSE FindByName(entries, value.name)]

\* GrubBootEntries::entries
entries_of(c) == c.entries

\* GrubBootEntries::selected: <<>> for None, else <<name>>
selected(c) == IF c.selected # <<>> THEN <<entry(c.selected[1])>> ELSE <<>>

---------------------------------------------------------------------------
(* The configuration document as a state machine *)

NoDoc == [lines |-> <<>>, keyvals |-> EmptyMap]
NoErr == [kind |-> "none"]
NoCall == [op |-> "none"]
NoCatalog == [ok |-> FALSE, err |-> NoErr]

\* keys and values the callers of set_key_value pass
EditKeys == {<<"a">>, <<"a", "a">>}
EditValues == {<<>>, <<"a">>}

NoTime == [t |-> "none"]

\* no time argument is part of the runs of the other components
TimeIdle ==
    /\ targ = <<>>
    /\ tchecks = FALSE
    /\ tpc = "idle"
    /\ tres = NoTime

\* before read_events returned anything
NoBatch == [events |-> <<>>, seen |-> 0, emits |-> 0, sent |-> 0]

\* no event coordinator is part of the runs of the document and the catalog
EventsIdle ==
    /\ shutdown = FALSE
    /\ holders = {}
    /\ timeout = <<>>
    /\ workers = 1
    /\ mainPc = "idle"
    /\ event_res = "none"
    /\ filesPc = "idle"
    /\ batch = NoBatch
    /\ nread = 0
    /\ attempts = 0
    /\ signaled = FALSE
    /\ sent = 0
    /\ late = 0
    /\ idlePc = "idle"
    /\ counter = 0
    /\ active = 0
    /\ quiet = 0

\* no catalog query is part of the runs of the configuration document
BootIdle ==
    /\ cfg = <<>>
    /\ env = <<>>
    /\ bpc = "idle"
    /\ catalog = NoCatalog
    /\ pos = 0
    /\ pst = ParseStart

InitFile ==
    /\ file \in StringsUpTo(Alphabet, MaxLen)
    /\ fpc = "text"
    /\ doc = NoDoc
    /\ ferr = NoErr
    /\ last = NoCall
    /\ edits = 0
    /\ BootIdle
    /\ EventsIdle
    /\ TimeIdle

\* GrubFile::new(file) returns a document or an error
New ==
    /\ fpc = "text"
    /\ LET r == GrubFile_new(file)
       IN  IF r.ok
           THEN /\ fpc' = "doc"
                /\ doc' = r.doc
                /\ ferr' = NoErr
           ELSE /\ fpc' = "err"
                /\ doc' = NoDoc
                /\ ferr' = r.err
    /\ last' = [op |-> "new"]
    /\ UNCHANGED <<file, edits, bootVars, eventVars, timeVars>>

\* doc.set_key_value(key, value), the key and the value taken from the sets
\* given; an index out of bounds panics, after keyval.update(value) has
\* changed the entry of the mapping
SetKeyValueOf(keys, values) ==
    /\ fpc = "doc"
    /\ edits < MaxEdits
    /\ \E key \in keys, value \in values :
          /\ IF IndexPanics(doc, key)
             THEN /\ fpc' = "panicked"
                  /\ doc' = [doc EXCEPT !.keyvals[key] = KeyValue_update(@, value)]
             ELSE /\ fpc' = fpc
                  /\ doc' = set_key_value(doc, key, value)
          /\ last' = [op |-> "set_key_value", key |-> key, value |-> value, pre |-> doc]
    /\ edits' = edits + 1
    /\ UNCHANGED <<file, ferr, bootVars, eventVars, timeVars>>

\* doc.set_key_value(key, value)
SetKeyValue == SetKeyValueOf(EditKeys, EditValues)

Next == New \/ SetKeyValue

Spec == InitFile /\ [][Next]_vars

---------------------------------------------------------------------------
(* A document edited once, written and parsed again *)

\* longest configuration text that is edited and parsed again
MaxReparseLen == 4

\* keys the callers of set_key_value pass: plain, empty, with '=', with white
\* space around them, starting with '#', holding '#', holding a newline
ReparseKeys ==
    { <<"a">>, <<>>, <<"a", "=">>, <<" ", "a">>, <<"a", " ">>, <<"a", " ", "a">>,
      <<"#">>, <<"#", "a">>, <<"a", "#">>, <<"a", "\n", "a">> }

\* values the callers of set_key_value pass: plain, empty, with white space,
\* with '=', with '#', with a quote of either kind, with a newline
ReparseValues ==
    { <<"a">>, <<>>, <<" ", "a", " ">>, <<"=">>, <<"#">>, <<"a", "\"">>, <<"'">>, <<"\n">> }

InitReparse ==
    /\ file \in StringsUpTo(Alphabet, MaxReparseLen)
    /\ fpc = "text"
    /\ doc = NoDoc
    /\ ferr = NoErr
    /\ last = NoCall
    /\ edits = 0
    /\ BootIdle
    /\ EventsIdle
    /\ TimeIdle

\* the first doc.set_key_value(key, value)
SetOnce ==
    /\ edits = 0
    /\ SetKeyValueOf(ReparseKeys, ReparseValues)

\* GrubFile::new(&doc.as_string()): the text written is parsed again
Reparse ==
    /\ fpc = "doc"
    /\ last.op = "set_key_value"
    /\ fpc' = "reparsed"
    /\ last' = [op |-> "reparse", key |-> last.key, value |-> last.value, pre |-> last.pre,
                again |-> GrubFile_new(as_string(doc))]
    /\ UNCHANGED <<file, doc, ferr, edits, bootVars, eventVars, timeVars>>

NextReparse == New \/ SetOnce \/ Reparse

SpecReparse == InitReparse /\ [][NextReparse]_vars

---------------------------------------------------------------------------
(* A document rebuilt from a list of lines *)

\* most lines handed to from_lines
MaxGivenLines == 2
\* largest line index an entry handed to from_lines carries
MaxGivenIndex == 2

\* the lines handed to from_lines: a comment, and entries key= whose line
\* index is whatever the caller, or the deserialized message, gave them
GivenLineSet ==
    {LineString(<<"#">>)} \cup
    { LineKeyValue([line |-> i, original |-> k \o <<"=">>, changed |-> FALSE,
                    key |-> k, value |-> <<>>]) : i \in 0..MaxGivenIndex, k \in EditKeys }

\* before GrubFile::from_lines(grub_lines)
InitLines ==
    /\ file = <<>>
    /\ fpc = "lines"
    /\ doc = NoDoc
    /\ ferr = NoErr
    /\ last \in {[op |-> "given", grub_lines |-> ls] : ls \in SeqsUpTo(GivenLineSet, MaxGivenLines)}
    /\ edits = 0
    /\ BootIdle
    /\ EventsIdle
    /\ TimeIdle

\* GrubFile::from_lines(grub_lines) returns a document
FromLines ==
    /\ fpc = "lines"
    /\ doc' = from_lines(last.grub_lines)
    /\ fpc' = "doc"
    /\ last' = [op |-> "from_lines", grub_lines |-> last.grub_lines]
    /\ UNCHANGED <<file, ferr, edits, bootVars, eventVars, timeVars>>

NextLines == FromLines \/ SetKeyValue

SpecLines == InitLines /\ [][NextLines]_vars

---------------------------------------------------------------------------
(* The boot-entry catalog as a state machine *)

\* the entry and submenu names of the menu sources
Huge ==
    <<"1", "8", "4", "4", "6", "7", "4", "4", "0", "7",
      "3", "7", "0", "9", "5", "5", "1", "6", "1", "6">>
Names == {<<"A">>, <<"B">>, <<"S">>, <<"T">>, Huge}

\* menuentry 'name' {
MenuEntryLine(name) == <<"menuentry", " ", "'">> \o name \o <<"'", " ", "{">>
\* submenu 'name' {
SubmenuLine(name) == <<"submenu", " ", "'">> \o name \o <<"'", " ", "{">>
\* saved_entry=value
SavedEntryLine(value) == <<"saved_entry", "=">> \o value

\* the lines of the menu sources: entries, submenus, a closing brace, and the
\* opening line of a brace block of another command
MenuLineSet ==
    { MenuEntryLine(<<"A">>),
      <<"\t">> \o MenuEntryLine(<<"B">>),
      SubmenuLine(<<"S">>),
      <<" ">> \o SubmenuLine(<<"T">>),
      <<"}">>,
      <<"x", " ", "{">> }

\* the lines of the menu sources read together with a varied grubenv
SelMenuLineSet ==
    { MenuEntryLine(<<"A">>),
      MenuEntryLine(<<"B">>),
      MenuEntryLine(Huge),
      SubmenuLine(<<"S">>),
      <<"}">> }

\* the lines of the grubenv
EnvLineSet ==
    { SavedEntryLine(<<"0">>),
      SavedEntryLine(<<" ", "0", "1">>),
      SavedEntryLine(<<"3">>),
      SavedEntryLine(Huge),
      SavedEntryLine(UsizeMaxDigits),
      SavedEntryLine(<<"A">>),
      SavedEntryLine(<<"S", ">", "A">>),
      SavedEntryLine(<<"+", "1">>),
      SavedEntryLine(<<" ">>),
      <<"saved_entry">>,
      <<"#">> }

\* a text file of the lines ls, each ended by a newline
FileText(ls) == Concat([i \in 1..Len(ls) |-> ls[i] \o <<"\n">>])

\* read_to_string: <<>> for Err, <<contents>> for Ok(contents)
Readable(texts) == {<<t>> : t \in texts} \cup {<<>>}

\* no configuration document is part of the runs of the catalog
FileIdle ==
    /\ file = <<>>
    /\ fpc = "idle"
    /\ doc = NoDoc
    /\ ferr = NoErr
    /\ last = NoCall
    /\ edits = 0

InitBoot ==
    /\ \/ /\ cfg \in {<<FileText(ls)>> : ls \in SeqsUpTo(MenuLineSet, MaxMenuLines)}
          /\ env = <<FileText(<<SavedEntryLine(<<"0">>)>>)>>
       \/ /\ cfg \in Readable({FileText(ls) : ls \in SeqsUpTo(SelMenuLineSet, MaxSelMenuLines)})
          /\ env \in Readable({FileText(ls) : ls \in SeqsUpTo(EnvLineSet, MaxEnvLines)})
    /\ bpc = "query"
    /\ catalog = NoCatalog
    /\ pos = 0
    /\ pst = ParseStart
    /\ FileIdle
    /\ EventsIdle
    /\ TimeIdle

\* GrubBootEntries::new() on the two files
BuildCatalog ==
    /\ bpc = "query"
    /\ LET r == GrubBootEntries_new(cfg, env)
       IN  /\ catalog' = r
           /\ bpc' = IF r.ok THEN "ok" ELSE "err"
    /\ UNCHANGED <<cfg, env, pos, pst, fileVars, eventVars, timeVars>>

NextBoot == BuildCatalog

SpecBoot == InitBoot /\ [][NextBoot]_vars

---------------------------------------------------------------------------
(* The loop of parse_entries, one line at a time *)

\* most lines of a menu source read line by line
MaxParseLines == 4
\* most lines of a menu source of nested blocks read line by line
MaxNestLines == 6

\* menuentry "name" {: the name in double quotes, which entry_re does not match
BadMenuEntryLine(name) == <<"menuentry", " ", "\"">> \o name \o <<"\"", " ", "{">>
\* submenu "name" {: the name in double quotes, which submenu_re does not match
BadSubmenuLine(name) == <<"submenu", " ", "\"">> \o name \o <<"\"", " ", "{">>

\* the lines of the menu sources read line by line: entries and submenus,
\* well formed and ill formed, and a closing brace
ParseLineSet ==
    { MenuEntryLine(<<"A">>),
      SubmenuLine(<<"S">>),
      SubmenuLine(<<"T">>),
      BadMenuEntryLine(<<"B">>),
      BadSubmenuLine(<<"U">>),
      <<"}">> }

\* the lines of the longer menu sources of nested blocks
NestLineSet ==
    { MenuEntryLine(<<"A">>),
      SubmenuLine(<<"S">>),
      BadSubmenuLine(<<"U">>),
      <<"}">> }

\* GrubBootEntries::new has read grub.cfg and parse_entries is before its
\* loop; the grubenv has no saved_entry
InitParse ==
    /\ cfg \in {<<FileText(ls)>> : ls \in SeqsUpTo(ParseLineSet, MaxParseLines)
                                         \cup SeqsUpTo(NestLineSet, MaxNestLines)}
    /\ env = <<FileText(<<>>)>>
    /\ bpc = "parse"
    /\ catalog = NoCatalog
    /\ pos = 0
    /\ pst = ParseStart
    /\ FileIdle
    /\ EventsIdle
    /\ TimeIdle

\* one iteration of for line in contents.lines()
ParseStep ==
    /\ bpc = "parse"
    /\ pos < Len(Lines(cfg[1]))
    /\ pst' = ParseLine(pst, Lines(cfg[1])[pos + 1])
    /\ pos' = pos + 1
    /\ UNCHANGED <<cfg, env, bpc, catalog, fileVars, eventVars, timeVars>>

\* the loop is over: parse_entries returns Ok(entries), and
\* GrubBootEntries::new finds no saved_entry and returns the catalog
ParseEnd ==
    /\ bpc = "parse"
    /\ pos = Len(Lines(cfg[1]))
    /\ catalog' = [ok |-> TRUE, entries |-> pst.entries, selected |-> <<>>]
    /\ bpc' = "ok"
    /\ UNCHANGED <<cfg, env, pos, pst, fileVars, eventVars, timeVars>>

NextParse == ParseStep \/ ParseEnd

SpecParse == InitParse /\ [][NextParse]_vars

---------------------------------------------------------------------------
(* The event coordinator and the driver as a state machine *)

\* most batches of events that read_events returns in one run
MaxBatches == 2
\* most events of one batch
MaxBatchLen == 2
\* longest allowed idle time, in milliseconds
MaxIdleTime == 150
\* most intervals of one run in which connection activity is observed
MaxActive == 1
\* Duration::from_millis(100), the interval of detect_idle_connection
Interval == 100

\* config.allowed_idle_time(): None, or Some(milliseconds)
IdleTimes == {<<>>} \cup {<<75 * k>> : k \in 1..(MaxIdleTime \div 75)}

\* the inotify events of the two watched directories: a modification of the
\* named file, and an event that carries no name (the watch was removed)
EventSet ==
    { [mask |-> "MODIFY", name |-> <<"grub">>],
      [mask |-> "MODIFY", name |-> <<"grubenv">>],
      [mask |-> "MODIFY", name |-> <<"grub.cfg">>],
      [mask |-> "IGNORED", name |-> <<>>] }

\* event.mask.contains(EventMask::MODIFY)
\*     && event.name.is_some_and(|name| name == "grub" || name == "grubenv")
Qualifies(e) ==
    /\ e.mask = "MODIFY"
    /\ e.name # <<>>
    /\ e.name[1] = "grub" \/ e.name[1] = "grubenv"

\* the condition without its test of signaled
ShouldSignal_NoDedup(e, sig) == Qualifies(e)

\* the condition of the if in the for loop
ShouldSignal(e, sig) == Qualifies(e) /\ ~sig

\* the states without those of a task that panicked
Finished_NoPanic == {"ok", "err"}

\* the states of a task in which its JoinHandle is ready: the task returned
\* Ok(()) or Err, or it panicked (in the setup of the watches, or on an
\* error of read_events)
Finished == {"ok", "err", "setup_failed", "panicked"}

\* the task of listen_files inside its loop
Looping == {"while", "read", "for", "interface", "emit"}

\* the result with the error of the task dropped
SelectResult_Swallow(pc) == "ok"

\* the result of the select when the task of listen_files is over first:
\* its error, or the JoinError of its panic, is returned by res?
SelectResult(pc) == IF pc = "ok" THEN "ok" ELSE "err"

\* the test on a flag that is never seen set
LoopTest_Stale(flag) == TRUE

\* the test of the while loop of listen_files_loop on the loaded flag
LoopTest(flag) == ~flag

\* a task that keeps its clone when it is over
Drop_Leak(h, task) == h

\* signal_shutdown taking &self: the coordinator stays alive in main
AfterSignal_Borrowed(h) == h

\* the clones of the connection that are left when signal_shutdown(self)
\* returns: self is dropped
AfterSignal(h) == h \ {"events"}

\* a task that is over drops the clone of the coordinator it owns
Drop(h, task) == h \ {task}

\* a flag that is created set
NewFlag_Set == TRUE

\* AtomicBool::new(false): the flag of a new coordinator
NewFlag == FALSE

\* a select that takes the result of listen_files only when the task of
\* detect_idle_connection is over as well
FilesBranch_Join(pc) == pc \in Finished /\ idlePc \in Finished

\* the branch res = file_changes of the select: its JoinHandle is ready
FilesBranch(pc) == pc \in Finished

\* the branch res = idle_connection, if config.allowed_idle_time().is_some()
IdleBranch(t, pc) == t # <<>> /\ pc \in Finished

\* a counter that activity does not reset
Elapsed_NoReset(c, activity) == c + Interval

\* the counter after one interval: counter += 100 when wait_timeout returned
\* None, counter = 0 when it returned activity
Elapsed(c, activity) == IF activity THEN 0 ELSE c + Interval

\* the worker threads of the runtime of #[tokio::main], one for each CPU
\* unless TOKIO_WORKER_THREADS names their number: one, or more than one (two
\* tasks are spawned, so a third worker is never used)
WorkerThreads == {1, 2}

\* the positions of the task of listen_files at an .await, where the task
\* gives up its worker when the future it awaits is not ready
FilesAwaits == {"interface", "emit"}

\* the task of detect_idle_connection is being polled: it has no .await, the
\* wait of wait_timeout blocks its worker, so the poll that starts the task
\* lasts until the task returns
IdlePolled == idlePc \in {"while", "wait"}

\* a worker polls the task of listen_files: with one worker, not during the
\* poll of the other task
FilesRuns == workers > 1 \/ ~IdlePolled

\* a worker polls the task of detect_idle_connection: with one worker the
\* task of listen_files, spawned first, is polled first, and its loop keeps
\* the worker (WouldBlock continues with no .await) until the task is over
\* or is not ready at an .await
IdleRuns == workers > 1 \/ IdlePolled \/ filesPc \in Finished \cup FilesAwaits

\* main before BootkitEvents::new: it holds the connection it created
InitEvents ==
    /\ shutdown = FALSE
    /\ holders = {"main"}
    /\ timeout \in IdleTimes
    /\ workers \in WorkerThreads
    /\ mainPc = "new"
    /\ event_res = "none"
    /\ filesPc = "unspawned"
    /\ batch = NoBatch
    /\ nread = 0
    /\ attempts = 0
    /\ signaled = FALSE
    /\ sent = 0
    /\ late = 0
    /\ idlePc = "unspawned"
    /\ counter = 0
    /\ active = 0
    /\ quiet = 0
    /\ FileIdle
    /\ BootIdle
    /\ TimeIdle

\* BootkitEvents::new(&connection): the coordinator holds a clone
NewEvents ==
    /\ mainPc = "new"
    /\ holders' = holders \cup {"events"}
    /\ shutdown' = NewFlag
    /\ mainPc' = "listen"
    /\ UNCHANGED <<timeout, workers, event_res, filesPc, batch, nread, attempts, signaled, sent,
                   late, idlePc, counter, active, quiet, fileVars, bootVars,
                   timeVars>>

\* listen_events up to its select: listen_files and detect_idle_connection
\* each clone the coordinator and spawn a task that owns the clone
ListenEvents ==
    /\ mainPc = "listen"
    /\ holders' = holders \cup {"listen_files", "detect_idle_connection"}
    /\ filesPc' = "spawned"
    /\ idlePc' = "spawned"
    /\ mainPc' = "select"
    /\ UNCHANGED <<shutdown, timeout, workers, event_res, batch, nread, attempts, signaled, sent, late,
                   counter, active, quiet, fileVars, bootVars,
                   timeVars>>

\* tokio::select! and res?: the first task that is over decides event_res;
\* the branch of idle_connection is disabled without an allowed idle time
Select ==
    /\ mainPc = "select"
    /\ \/ /\ FilesBranch(filesPc)
          /\ event_res' = SelectResult(filesPc)
       \/ /\ IdleBranch(timeout, idlePc)
          /\ event_res' = "ok"
    /\ mainPc' = "signal"
    /\ UNCHANGED <<shutdown, holders, timeout, workers, filesPc, batch, nread, attempts, signaled, sent,
                   late, idlePc, counter, active, quiet, fileVars, bootVars,
                   timeVars>>

\* events.signal_shutdown(): stores the flag and drops the coordinator; then
\* main calls connection.graceful_shutdown()
SignalShutdown ==
    /\ mainPc = "signal"
    /\ shutdown' = TRUE
    /\ holders' = AfterSignal(holders)
    /\ mainPc' = "graceful"
    /\ UNCHANGED <<timeout, workers, event_res, filesPc, batch, nread, attempts, signaled, sent, late,
                   idlePc, counter, active, quiet, fileVars, bootVars,
                   timeVars>>

\* connection.graceful_shutdown().await returns once every other clone of the
\* connection is dropped; main then returns Ok(())
GracefulShutdown ==
    /\ mainPc = "graceful"
    /\ holders = {"main"}
    /\ holders' = {}
    /\ mainPc' = "done"
    /\ UNCHANGED <<shutdown, timeout, workers, event_res, filesPc, batch, nread, attempts, signaled, sent,
                   late, idlePc, counter, active, quiet, fileVars, bootVars,
                   timeVars>>

\* listen_files_loop before its loop: Inotify::init and the two watches; an
\* expect that fails panics the task
FilesSetup ==
    /\ FilesRuns
    /\ filesPc = "spawned"
    /\ \/ /\ filesPc' = "while"
          /\ UNCHANGED holders
       \/ /\ filesPc' = "setup_failed"
          /\ holders' = Drop(holders, "listen_files")
    /\ UNCHANGED <<shutdown, timeout, workers, mainPc, event_res, batch, nread, attempts, signaled, sent,
                   late, idlePc, counter, active, quiet, fileVars, bootVars,
                   timeVars>>

\* while !self.shutdown.load(): leave the loop with Ok(()), or go on to read
FilesWhile ==
    /\ FilesRuns
    /\ filesPc = "while"
    /\ IF LoopTest(shutdown)
       THEN /\ filesPc' = "read"
            /\ UNCHANGED holders
       ELSE /\ filesPc' = "ok"
            /\ holders' = Drop(holders, "listen_files")
    /\ UNCHANGED <<shutdown, timeout, workers, mainPc, event_res, batch, nread, attempts, signaled, sent,
                   late, idlePc, counter, active, quiet, fileVars, bootVars,
                   timeVars>>

\* inotify.read_events: WouldBlock continues the loop, another error panics,
\* and a batch of events starts the for loop with signaled = false
FilesRead ==
    /\ FilesRuns
    /\ filesPc = "read"
    /\ late' = IF shutdown /\ late < 2 THEN late + 1 ELSE late
    /\ \/ /\ filesPc' = "while"
          /\ UNCHANGED <<holders, batch, nread, signaled>>
       \/ /\ filesPc' = "panicked"
          /\ holders' = Drop(holders, "listen_files")
          /\ UNCHANGED <<batch, nread, signaled>>
       \/ /\ nread < MaxBatches
          /\ \E events \in SeqsUpTo(EventSet, MaxBatchLen) :
                batch' = [events |-> events, seen |-> 0, emits |-> 0, sent |-> 0]
          /\ nread' = nread + 1
          /\ signaled' = FALSE
          /\ filesPc' = "for"
          /\ UNCHANGED holders
    /\ UNCHANGED <<shutdown, timeout, workers, mainPc, event_res, attempts, sent, idlePc,
                   counter, active, quiet, fileVars, bootVars,
                   timeVars>>

\* one turn of for event in events, up to its first await: for an event
\* that is to be signaled the turn sets signaled and begins the emission
FilesEvent ==
    /\ FilesRuns
    /\ filesPc = "for"
    /\ IF batch.seen = Len(batch.events)
       THEN /\ filesPc' = "while"
            /\ UNCHANGED <<batch, attempts, signaled>>
       ELSE IF ShouldSignal(batch.events[batch.seen + 1], signaled)
       THEN /\ signaled' = TRUE
            /\ batch' = [batch EXCEPT !.seen = batch.seen + 1, !.emits = batch.emits + 1]
            /\ attempts' = attempts + 1
            /\ filesPc' = "interface"
       ELSE /\ batch' = [batch EXCEPT !.seen = batch.seen + 1]
            /\ UNCHANGED <<filesPc, attempts, signaled>>
    /\ UNCHANGED <<shutdown, holders, timeout, workers, mainPc, event_res, nread, sent, late, idlePc,
                   counter, active, quiet, fileVars, bootVars,
                   timeVars>>

\* object_server().interface("/org/opensuse/bootkit").await?: the interface,
\* or an error that the ? returns from the task
FilesInterface ==
    /\ FilesRuns
    /\ filesPc = "interface"
    /\ \/ /\ filesPc' = "emit"
          /\ UNCHANGED holders
       \/ /\ filesPc' = "err"
          /\ holders' = Drop(holders, "listen_files")
    /\ UNCHANGED <<shutdown, timeout, workers, mainPc, event_res, batch, nread, attempts, signaled, sent,
                   late, idlePc, counter, active, quiet, fileVars, bootVars,
                   timeVars>>

\* file_changed().await?: the signal is sent and the turn is over, or an
\* error that the ? returns from the task
FilesEmit ==
    /\ FilesRuns
    /\ filesPc = "emit"
    /\ \/ /\ sent' = sent + 1
          /\ batch' = [batch EXCEPT !.sent = batch.sent + 1]
          /\ filesPc' = "for"
          /\ UNCHANGED holders
       \/ /\ filesPc' = "err"
          /\ holders' = Drop(holders, "listen_files")
          /\ UNCHANGED <<sent, batch>>
    /\ UNCHANGED <<shutdown, timeout, workers, mainPc, event_res, nread, attempts, signaled,
                   late, idlePc, counter, active, quiet, fileVars, bootVars,
                   timeVars>>

\* detect_idle_connection before its loop: without a timeout it returns Ok(())
IdleStart ==
    /\ IdleRuns
    /\ idlePc = "spawned"
    /\ IF timeout = <<>>
       THEN /\ idlePc' = "ok"
            /\ holders' = Drop(holders, "detect_idle_connection")
       ELSE /\ idlePc' = "while"
            /\ UNCHANGED holders
    /\ counter' = 0
    /\ UNCHANGED <<shutdown, timeout, workers, mainPc, event_res, filesPc, batch, nread, attempts, signaled,
                   sent, late, active, quiet, fileVars, bootVars,
                   timeVars>>

\* while counter < timeout && !shutdown: the test of the loop; the task
\* starts to wait for activity, or leaves the loop and returns Ok(())
IdleWhile ==
    /\ IdleRuns
    /\ idlePc = "while"
    /\ IF counter < timeout[1] /\ ~shutdown
       THEN /\ idlePc' = "wait"
            /\ UNCHANGED holders
       ELSE /\ idlePc' = "ok"
            /\ holders' = Drop(holders, "detect_idle_connection")
    /\ UNCHANGED <<shutdown, timeout, workers, mainPc, event_res, filesPc, batch, nread, attempts, signaled,
                   sent, late, counter, active, quiet, fileVars, bootVars,
                   timeVars>>

\* monitor_activity().wait_timeout(100 ms) returns, with no activity observed
\* or with activity, and the counter is updated; the flag may have been set
\* during the wait
IdleWait ==
    /\ IdleRuns
    /\ idlePc = "wait"
    /\ \/ /\ counter' = Elapsed(counter, FALSE)
          /\ quiet' = quiet + 1
          /\ UNCHANGED active
       \/ /\ active < MaxActive
          /\ counter' = Elapsed(counter, TRUE)
          /\ quiet' = 0
          /\ active' = active + 1
    /\ idlePc' = "while"
    /\ UNCHANGED <<shutdown, holders, timeout, workers, mainPc, event_res, filesPc, batch, nread, attempts,
                   signaled, sent, late, fileVars, bootVars,
                   timeVars>>

MainNext == NewEvents \/ ListenEvents \/ Select \/ SignalShutdown \/ GracefulShutdown
FilesNext == FilesSetup \/ FilesWhile \/ FilesRead \/ FilesEvent \/ FilesInterface \/ FilesEmit
IdleNext == IdleStart \/ IdleWhile \/ IdleWait

NextEvents == MainNext \/ FilesNext \/ IdleNext

SpecEvents == InitEvents /\ [][NextEvents]_vars

\* main and the two tasks each run when they can: main on the thread of the
\* runtime's block_on, a task when a worker polls it (FilesRuns, IdleRuns);
\* with one worker the task of detect_idle_connection is not owed a step as
\* long as the task of listen_files keeps turning in its loop
FairEvents == WF_vars(MainNext) /\ WF_vars(FilesNext) /\ WF_vars(IdleNext)

SpecEventsLive == SpecEvents /\ FairEvents

---------------------------------------------------------------------------
(* TimeConfig (src/src/config/time.rs) *)

\* the character U+00A0 (no-break space) is the element "NBSP" of a string:
\* white space of two bytes in UTF-8
ByteLen(c) == IF c = "NBSP" THEN 2 ELSE 1

\* the byte offsets of s at which a character starts or s ends
Boundaries(s) ==
    LET RECURSIVE Offset(_)
        Offset(k) == IF k = 0 THEN 0 ELSE Offset(k - 1) + ByteLen(s[k])
    IN  {Offset(k) : k \in 0..Len(s)}

\* s[at..] for a byte offset at that is a boundary of s
SliceFrom(s, at) ==
    LET RECURSIVE Skip(_, _)
        Skip(k, off) == IF off = at THEN SubSeq(s, k + 1, Len(s))
                        ELSE Skip(k + 1, off + ByteLen(s[k + 1]))
    IN  Skip(0, 0)

\* char::is_ascii_digit
IsAsciiDigit(c) == c \in Digits

\* the number of turns of for ch in s.chars() before the first character
\* that is no ASCII digit
RECURSIVE CountDigits(_)
CountDigits(s) ==
    IF s # <<>> /\ IsAsciiDigit(Head(s)) THEN 1 + CountDigits(Tail(s)) ELSE 0

\* the number of turns of for ch in s.chars() before the first character
\* that is no white space
RECURSIVE CountWhitespace(_)
CountWhitespace(s) ==
    IF s # <<>> /\ IsWhitespace(Head(s)) THEN 1 + CountWhitespace(Tail(s)) ELSE 0

\* char::to_lowercase, on the letters that occur
LowerChar(c) ==
    CASE c = "S" -> "s" [] c = "E" -> "e" [] c = "C" -> "c" [] c = "O" -> "o"
      [] c = "N" -> "n" [] c = "D" -> "d" [] c = "M" -> "m" [] c = "I" -> "i"
      [] c = "U" -> "u" [] c = "T" -> "t" [] c = "H" -> "h" [] c = "R" -> "r"
      [] c = "X" -> "x"
      [] OTHER -> c

\* str::to_lowercase
ToLowercase(s) == [i \in 1..Len(s) |-> LowerChar(s[i])]

\* a u64 is four limbs of 16 bits, the least significant first
Limb == 65536
U64Zero == <<0, 0, 0, 0>>

\* x * k + d on 64 bits, 0 <= k <= 1000: the wrapped result, and whether the
\* exact result did not fit
MulAdd(x, k, d) ==
    LET p1 == x[1] * k + d
        p2 == x[2] * k + (p1 \div Limb)
        p3 == x[3] * k + (p2 \div Limb)
        p4 == x[4] * k + (p3 \div Limb)
    IN  [v |-> <<p1 % Limb, p2 % Limb, p3 % Limb, p4 % Limb>>,
         over |-> p4 \div Limb # 0]

\* str::parse::<u64> on a string of decimal digits: <<>> for Err (the number
\* does not fit), else <<value>>
RECURSIVE ParseU64From(_, _)
ParseU64From(s, acc) ==
    IF s = <<>> THEN <<acc>>
    ELSE LET r == MulAdd(acc, 10, DigitVal(Head(s)))
         IN  IF r.over THEN <<>> ELSE ParseU64From(Tail(s), r.v)

ParseU64(s) == ParseU64From(s, U64Zero)

\* the factors of the three units: 1000, 60 * 1000, 60 * 60 * 1000
UnitFactors(unit_str) ==
    IF unit_str \in {<<"s">>, <<"s", "e", "c">>, <<"s", "e", "c", "o", "n", "d">>}
    THEN <<<<1000>>>>
    ELSE IF unit_str \in {<<"m">>, <<"m", "i", "n">>, <<"m", "i", "n", "u", "t", "e">>}
    THEN <<<<1000, 60>>>>
    ELSE IF unit_str \in {<<"h">>, <<"h", "o", "u", "r">>}
    THEN <<<<1000, 60, 60>>>>
    ELSE <<>>

\* time_value * unit on u64, one factor of the unit after the other
RECURSIVE Multiply(_, _)
Multiply(x, factors) ==
    IF factors = <<>> THEN [v |-> x, over |-> FALSE]
    ELSE LET r == MulAdd(x, Head(factors), 0)
             rest == Multiply(r.v, Tail(factors))
         IN  [v |-> rest.v, over |-> r.over \/ rest.over]

TimeOk(ms) == [t |-> "Ok", milliseconds |-> ms]
TimeErr(msg) == [t |-> "Err", msg |-> msg]
TimePanic(msg) == [t |-> "Panic", msg |-> msg]

\* TimeConfig::from_str(time); checks says whether the build has overflow
\* checks (a debug build panics where a release build wraps)
from_str(input, checks) ==
    LET time == Trim(input)
    IN  IF time = <<>> THEN TimeErr("Time argument cannot be an empty string")
        ELSE IF ~IsAsciiDigit(Head(time)) THEN TimeErr("Time must start with an integer")
        ELSE
        LET time_end == CountDigits(time)
            unit_start == time_end
                            + CountWhitespace(SubSeq(time, time_end + 1, Len(time)))
            time_value == ParseU64(SubSeq(time, 1, time_end))
        IN  IF time_value = <<>> THEN TimePanic("called Result::unwrap() on an Err value")
            ELSE IF time_value[1] = U64Zero THEN TimeErr("Time cannot be zero.")
            ELSE IF unit_start \notin Boundaries(time)
            THEN TimePanic("byte index is not a char boundary")
            ELSE
            LET unit_str == ToLowercase(SliceFrom(time, unit_start))
                unit == UnitFactors(unit_str)
            IN  IF unit = <<>> THEN TimeErr("Invalid unit")
                ELSE LET product == Multiply(time_value[1], unit[1])
                     IN  IF product.over /\ checks
                         THEN TimePanic("attempt to multiply with overflow")
                         ELSE TimeOk(product.v)

\* the white space between the time value and the unit
MaxGap == 2
GapChars == {" ", "\t", "NBSP"}

\* the time values of the arguments: none, zeros, small numbers, the largest
\* numbers whose milliseconds fit in 64 bits for each unit and their
\* successors, 2^64 - 1, 2^64, and a negative number
TimeNumbers ==
    { <<>>, <<"0">>, <<"0", "0">>, <<"1">>, <<"0", "1">>, <<"9", "9">>,
      <<"1", "1", "2", "3">>,
      <<"1", "8", "4", "4", "6", "7", "4", "4", "0", "7", "3", "7", "0", "9", "5", "5", "1">>,
      <<"1", "8", "4", "4", "6", "7", "4", "4", "0", "7", "3", "7", "0", "9", "5", "5", "2">>,
      <<"3", "0", "7", "4", "4", "5", "7", "3", "4", "5", "6", "1", "8", "2", "5">>,
      <<"3", "0", "7", "4", "4", "5", "7", "3", "4", "5", "6", "1", "8", "2", "6">>,
      <<"5", "1", "2", "4", "0", "9", "5", "5", "7", "6", "0", "3", "0">>,
      <<"5", "1", "2", "4", "0", "9", "5", "5", "7", "6", "0", "3", "1">>,
      UsizeMaxDigits,
      Huge,
      <<"-", "1">> }

\* the units of the arguments
TimeUnits ==
    { <<>>, <<"s">>, <<"s", "e", "c">>, <<"s", "e", "c", "o", "n", "d">>,
      <<"S">>, <<"S", "e", "C", "o", "N", "d">>,
      <<"m">>, <<"m", "i", "n">>, <<"m", "i", "n", "u", "t", "e">>, <<"M", "i", "N">>,
      <<"h">>, <<"h", "o", "u", "r">>, <<"H", "o", "u", "R">>,
      <<"x">>, <<"m", "s">>, <<"h", "o", "u", "r", "s">>, <<"s", "1">> }

\* the arguments: a time value, white space, a unit, inside optional blanks
TimeInputs ==
    { pre \o num \o gap \o unit \o post :
        pre \in {<<>>, <<" ">>}, num \in TimeNumbers, gap \in SeqsUpTo(GapChars, MaxGap),
        unit \in TimeUnits, post \in {<<>>, <<" ">>} }

InitTime ==
    /\ targ \in TimeInputs
    /\ tchecks \in BOOLEAN
    /\ tpc = "arg"
    /\ tres = NoTime
    /\ FileIdle
    /\ BootIdle
    /\ EventsIdle

\* TimeConfig::from_str(targ)
FromStr ==
    /\ tpc = "arg"
    /\ tres' = from_str(targ, tchecks)
    /\ tpc' = "done"
    /\ UNCHANGED <<targ, tchecks, fileVars, bootVars, eventVars>>

NextTime == FromStr

SpecTime == InitTime /\ [][NextTime]_vars

---------------------------------------------------------------------------
(* Reading a document and its source text, for the properties below *)

\* the positions of the KeyValue lines of d whose key is k
LinesOfKey(d, k) == {i \in 1..Len(d.lines) : d.lines[i].t = "KeyValue" /\ d.lines[i].kv.key = k}

\* the position of the last line of d whose key is k
LastLineOfKey(d, k) == CHOOSE i \in LinesOfKey(d, k) : \A j \in LinesOfKey(d, k) : j <= i

\* the rendered text of every line of d, in order
Rendered(d) == [i \in 1..Len(d.lines) |-> GrubLineToString(d.lines[i])]

\* a source line that is neither blank nor a comment
IsEntryText(seg) == Trim(seg) # <<>> /\ Head(Trim(seg)) # "#"

\* a source line GrubFile::new cannot read: an entry line without '='
IsBadText(seg) == IsEntryText(seg) /\ Find(seg, "=") = 0

\* the document was just returned by GrubFile::new
Parsed == fpc = "doc" /\ last.op = "new"

\* the last call was set_key_value on a key the mapping held
SetExisting == last.op = "set_key_value" /\ last.key \in DOMAIN last.pre.keyvals

\* the last call was set_key_value on a key the mapping did not hold
SetAbsent == last.op = "set_key_value" /\ last.key \notin DOMAIN last.pre.keyvals

\* key="value", the normalized form of a rewritten line
Normalized(key, value) == key \o <<"=", "\"">> \o value \o <<"\"">>

---------------------------------------------------------------------------
(* C1..C7: the configuration document *)

\* C1: round trip: for every text that GrubFile::new accepts, as_string of the
\* returned document is the text itself, trailing newline or not.
C1_RoundTrip == Parsed => as_string(doc) = file

\* C1 witness: an accepted text ending in a newline, with an entry line that
\* carries surrounding whitespace or quotes.
C1_Witness ==
    /\ Parsed
    /\ file # <<>> /\ file[Len(file)] = "\n"
    /\ \E i \in 1..Len(doc.lines) :
          /\ doc.lines[i].t = "KeyValue"
          /\ doc.lines[i].kv.original # doc.lines[i].kv.key \o <<"=">> \o doc.lines[i].kv.value

\* C2: dirty rewrite: after set_key_value(K, V) where K exists with a value
\* other than V, the line of K (the last line holding K) renders as K="V", no
\* line is added, and every other line renders as before the call; on a
\* freshly parsed document that is the corresponding line of the input text.
C2_DirtyRewrite ==
    (SetExisting /\ last.pre.keyvals[last.key].value # last.value) =>
        LET at == LastLineOfKey(last.pre, last.key)
        IN  /\ Len(doc.lines) = Len(last.pre.lines)
            /\ Rendered(doc)[at] = Normalized(last.key, last.value)
            /\ \A j \in 1..Len(doc.lines) :
                  j # at => /\ Rendered(doc)[j] = Rendered(last.pre)[j]
                            /\ edits = 1 => Rendered(doc)[j] = Split(file, "\n")[j]

\* C2 witness: a rewrite of a key that occurs on two lines of a freshly parsed
\* document; the first of the two lines is left as it was.
C2_Witness ==
    /\ SetExisting /\ last.pre.keyvals[last.key].value # last.value
    /\ edits = 1
    /\ Cardinality(LinesOfKey(last.pre, last.key)) = 2
    /\ as_string(doc) # file

\* C3: new-key append: set_key_value(K, V) with K absent adds exactly one line,
\* the last one, a changed KeyValue with empty original that renders as K="V";
\* the lines before it are the document's lines before the call, in order.
C3_NewKeyAppend ==
    SetAbsent =>
        LET n == Len(last.pre.lines)
        IN  /\ Len(doc.lines) = n + 1
            /\ SubSeq(doc.lines, 1, n) = last.pre.lines
            /\ doc.lines[n + 1].t = "KeyValue"
            /\ doc.lines[n + 1].kv.changed
            /\ doc.lines[n + 1].kv.original = <<>>
            /\ Rendered(doc)[n + 1] = Normalized(last.key, last.value)
            /\ LinesOfKey(doc, last.key) = {n + 1}

\* C3 witness: a key appended to a document that already had an entry line.
C3_Witness ==
    /\ SetAbsent
    /\ \E i \in 1..Len(last.pre.lines) : last.pre.lines[i].t = "KeyValue"
    /\ last.value # <<>>

\* C4: no-op edit: set_key_value(K, V) with V the current value of K leaves
\* every changed flag, of the lines and of the mapping, and as_string as they
\* were, after any number of calls.
C4_NoOpEdit ==
    (SetExisting /\ last.pre.keyvals[last.key].value = last.value) =>
        /\ \A i \in 1..Len(doc.lines) :
              doc.lines[i].t = "KeyValue" => doc.lines[i].kv.changed = last.pre.lines[i].kv.changed
        /\ \A k \in DOMAIN doc.keyvals : doc.keyvals[k].changed = last.pre.keyvals[k].changed
        /\ DOMAIN doc.keyvals = DOMAIN last.pre.keyvals
        /\ as_string(doc) = as_string(last.pre)

\* C4 witness: a second no-op call in a row on an unchanged entry whose source
\* line differs from the normalized form.
C4_Witness ==
    /\ SetExisting /\ last.pre.keyvals[last.key].value = last.value
    /\ edits = 2
    /\ ~doc.keyvals[last.key].changed
    /\ doc.keyvals[last.key].original # Normalized(last.key, last.value)
    /\ as_string(doc) = file

\* C5: last occurrence wins: keyvalues() maps every key to the KeyValue of the
\* last line holding it (value and line index), its keys are the keys of the
\* lines, and every entry line of the text is a KeyValue line of the sequence.
C5_LastOccurrenceWins ==
    Parsed =>
        /\ DOMAIN keyvalues(doc) = {doc.lines[i].kv.key : i \in {j \in 1..Len(doc.lines) : doc.lines[j].t = "KeyValue"}}
        /\ \A k \in DOMAIN keyvalues(doc) :
              LET at == LastLineOfKey(doc, k)
              IN  /\ keyvalues(doc)[k].value = doc.lines[at].kv.value
                  /\ keyvalues(doc)[k].line = at - 1
                  /\ keyvalues(doc)[k] = doc.lines[at].kv
        /\ \A i \in 1..Len(doc.lines) :
              IsEntryText(Split(file, "\n")[i]) <=>
                  (doc.lines[i].t = "KeyValue" /\ doc.lines[i].kv.original = Split(file, "\n")[i])

\* C5 witness: a key on two lines with different values.
C5_Witness ==
    /\ Parsed
    /\ \E k \in DOMAIN doc.keyvals : \E i \in LinesOfKey(doc, k) :
          /\ i < LastLineOfKey(doc, k)
          /\ doc.lines[i].kv.value # doc.keyvals[k].value

\* C6: missing separator: a text whose first entry line without '=' is at
\* zero-based position i is refused with a grub parse error naming line i + 1
\* and no document; a text without such a line is accepted.
C6_MissingSeparator ==
    last.op = "new" =>
        LET segs == Split(file, "\n")
            bad == {i \in 1..Len(segs) : IsBadText(segs[i])}
        IN  IF bad = {}
            THEN fpc = "doc" /\ ferr = NoErr
            ELSE /\ fpc = "err"
                 /\ doc = NoDoc
                 /\ ferr.kind = "grub_parse_error"
                 /\ ferr.line = CHOOSE i \in bad : \A j \in bad : i <= j

\* C6 witness: a refused text whose bad line comes after an entry line and is
\* followed by a second bad line.
C6_Witness ==
    /\ fpc = "err"
    /\ ferr.line = 2
    /\ IsEntryText(Split(file, "\n")[1])
    /\ Len(Split(file, "\n")) >= 3
    /\ IsBadText(Split(file, "\n")[3])

\* C7: line segmentation: an accepted text with n newline characters gives
\* n + 1 lines, none holding a newline; a text ending in a newline gives a
\* last line that is the empty opaque text, and a non-empty text not ending
\* in a newline gives a last line that is not empty.
C7_LineSegmentation ==
    Parsed =>
        LET n == Len(doc.lines)
            src(l) == IF l.t = "KeyValue" THEN l.kv.original ELSE l.raw_line
        IN  /\ n = Count(file, "\n") + 1
            /\ \A i \in 1..n : Count(src(doc.lines[i]), "\n") = 0
            /\ (file # <<>> /\ file[Len(file)] = "\n") => doc.lines[n] = LineString(<<>>)
            /\ (file # <<>> /\ file[Len(file)] # "\n") => src(doc.lines[n]) # <<>>

\* C7 witness: an accepted text ending in a newline whose other lines include
\* an empty one and an entry.
C7_Witness ==
    /\ Parsed
    /\ Len(doc.lines) >= 3
    /\ file # <<>> /\ file[Len(file)] = "\n"
    /\ \E i \in 1..(Len(doc.lines) - 1) : doc.lines[i] = LineString(<<>>)
    /\ \E i \in 1..Len(doc.lines) : doc.lines[i].t = "KeyValue"

---------------------------------------------------------------------------
(* Reading a menu source by its block structure, for the properties below *)

\* the lines of the menu source that was read
MenuLines == IF cfg = <<>> THEN <<>> ELSE Lines(cfg[1])

\* the lines of the grubenv that was read
EnvLines == IF env = <<>> THEN <<>> ELSE Lines(env[1])

IsCloseLine(l) == StartsWith(Trim(l), "}")
IsMenuEntryLine(l) == StartsWith(Trim(l), "menuentry")
IsSubmenuLine(l) == StartsWith(Trim(l), "submenu")
\* the opening line of a brace block that is neither an entry nor a submenu
IsOtherOpenLine(l) ==
    /\ ~IsCloseLine(l) /\ ~IsMenuEntryLine(l) /\ ~IsSubmenuLine(l)
    /\ Trim(l) # <<>> /\ Trim(l)[Len(Trim(l))] = "{"

\* a submenu or menuentry line is well-formed: keyword 'name' {
WellFormedLine(l) ==
    /\ IsMenuEntryLine(l) => \E n \in Names : Trim(l) = MenuEntryLine(n)
    /\ IsSubmenuLine(l) => \E n \in Names : Trim(l) = SubmenuLine(n)

\* the name a well-formed submenu or menuentry line gives
NameOfLine(l) == CHOOSE n \in Names : Trim(l) = MenuEntryLine(n) \/ Trim(l) = SubmenuLine(n)

\* The block structure of a menu source: every opening line opens a block and
\* every closing brace closes the innermost open block. open: the open blocks,
\* outermost first; found: the entries with the names of the submenu blocks
\* open around each; balanced: no closing brace met without an open block;
\* flat: no block of another command, and no menuentry or submenu line inside
\* an entry block.
BlocksStart == [open |-> <<>>, found |-> <<>>, balanced |-> TRUE, flat |-> TRUE]

SubmenusOf(open) ==
    LET at == {i \in 1..Len(open) : open[i].kind = "submenu"}
        RECURSIVE pick(_)
        pick(i) == IF i > Len(open) THEN <<>>
                   ELSE IF i \in at THEN <<open[i].name>> \o pick(i + 1) ELSE pick(i + 1)
    IN  pick(1)

InEntry(open) == open # <<>> /\ open[Len(open)].kind = "entry"

BlocksLine(b, l) ==
    IF IsCloseLine(l)
    THEN IF b.open = <<>> THEN [b EXCEPT !.balanced = FALSE]
         ELSE [b EXCEPT !.open = SubSeq(@, 1, Len(@) - 1)]
    ELSE IF IsMenuEntryLine(l)
    THEN [b EXCEPT !.open = Append(@, [kind |-> "entry", name |-> NameOfLine(l)]),
                   !.found = Append(@, [entry |-> NameOfLine(l), submenus |-> SubmenusOf(b.open)]),
                   !.flat = @ /\ ~InEntry(b.open)]
    ELSE IF IsSubmenuLine(l)
    THEN [b EXCEPT !.open = Append(@, [kind |-> "submenu", name |-> NameOfLine(l)]),
                   !.flat = @ /\ ~InEntry(b.open)]
    ELSE IF IsOtherOpenLine(l)
    THEN [b EXCEPT !.open = Append(@, [kind |-> "other", name |-> <<>>]),
                   !.flat = FALSE]
    ELSE b

RECURSIVE BlocksLoop(_, _)
BlocksLoop(b, ls) == IF ls = <<>> THEN b ELSE BlocksLoop(BlocksLine(b, Head(ls)), Tail(ls))

Blocks == BlocksLoop(BlocksStart, MenuLines)

\* every submenu and menuentry line is well-formed and braces are balanced
WellFormedMenu ==
    /\ cfg # <<>>
    /\ LET ls == MenuLines IN \A i \in 1..Len(ls) : WellFormedLine(ls[i])
    /\ LET b == Blocks IN b.balanced /\ b.open = <<>>

\* the catalog lists the entries of the block structure, in order, each with
\* its enclosing submenus, and full_path joins those names and the entry's
\* name by '>'
EntriesFollowBlocks ==
    /\ bpc = "ok"
    /\ catalog.entries = Blocks.found
    /\ \A i \in 1..Len(catalog.entries) :
          LET e == catalog.entries[i]
          IN  full_path(e) = Join(Append(e.submenus, e.entry), <<">">>)

---------------------------------------------------------------------------
(* C8..C10: the boot-entry catalog *)

\* C8 as claimed: for a menu source whose submenu and menuentry lines are
\* well-formed and whose braces are balanced, parse_entries returns one entry
\* per menuentry line, in order, with the names of the enclosing submenu blocks
\* as its submenu path, and full_path joins them by '>'.
C8_NestingAsClaimed == (bpc = "ok" /\ WellFormedMenu) => EntriesFollowBlocks

\* C8 amended: the same, for the sources in which, moreover, every brace block
\* is a submenu or menuentry block and no menuentry or submenu line lies
\* inside a menuentry block.
C8_Nesting ==
    (bpc = "ok" /\ WellFormedMenu /\ Blocks.flat) => EntriesFollowBlocks

\* C8 witness: an entry inside a submenu, and a top-level entry of another
\* name after the submenu was closed.
C8_Witness ==
    /\ bpc = "ok" /\ WellFormedMenu /\ Blocks.flat
    /\ \E i, j \in 1..Len(catalog.entries) :
          /\ i < j
          /\ Len(catalog.entries[i].submenus) = 1
          /\ catalog.entries[j].submenus = <<>>
          /\ catalog.entries[i].entry # catalog.entries[j].entry

\* the first line of ls that starts with saved_entry: 0 when none
FirstSavedEntry(ls) ==
    LET hits == {i \in 1..Len(ls) : StartsWith(ls[i], "saved_entry")}
    IN  IF hits = {} THEN 0 ELSE CHOOSE i \in hits : \A j \in hits : i <= j

\* the text after the first '=' of a line, trimmed
RightHandSide(l) == Trim(SubSeq(l, Find(l, "=") + 1, Len(l)))

\* a line without '=', or with nothing but whitespace after its first '='
Malformed(l) == Find(l, "=") = 0 \/ RightHandSide(l) = <<>>

\* a line whose right-hand side is a decimal number
IsNumberLine(l) ==
    /\ ~Malformed(l)
    /\ \A i \in 1..Len(RightHandSide(l)) : RightHandSide(l)[i] \in Digits

\* both files were read and the saved_entry value is a decimal number
SavedIsNumber ==
    /\ cfg # <<>> /\ env # <<>>
    /\ LET ls == EnvLines
           at == FirstSavedEntry(ls)
       IN  at # 0 /\ IsNumberLine(ls[at])

\* the saved_entry value, without its leading zeros
SavedDigits ==
    LET ls == EnvLines
    IN  StripZeros(RightHandSide(ls[FirstSavedEntry(ls)]))

\* the number that the digits ds (no leading zero) denote is below n, n <= 9
Below(ds, n) ==
    \/ ds = <<>> /\ 0 < n
    \/ Len(ds) = 1 /\ DigitVal(ds[1]) < n

\* the number that the digits ds denote, when it is below 10
Number(ds) == IF ds = <<>> THEN 0 ELSE DigitVal(ds[1])

\* the selection is the i-th entry when the saved_entry number i is below the
\* number of entries, and absent otherwise
SelectedByIndex ==
    /\ bpc = "ok"
    /\ LET ds == SavedDigits
       IN  IF Below(ds, Len(catalog.entries))
           THEN /\ catalog.selected = <<catalog.entries[Number(ds) + 1]>>
                /\ selected(catalog) = <<catalog.entries[Number(ds) + 1].entry>>
           ELSE /\ catalog.selected = <<>>
                /\ selected(catalog) = <<>>

\* C9 as claimed: when the saved_entry value is a non-negative integer i, the
\* build succeeds and selects the i-th entry (0-based) if there is one, and
\* nothing if i is out of range.
C9_SelectionByIndexAsClaimed == (bpc # "query" /\ SavedIsNumber) => SelectedByIndex

\* the number that the digits ds (no leading zero) denote is below 2^64
FitsUsize(ds) ==
    \/ Len(ds) < Len(UsizeMaxDigits)
    \/ Len(ds) = Len(UsizeMaxDigits) /\ ~DigitsGreater(ds, UsizeMaxDigits)

\* C9 amended: the same, for the integers that fit in usize (below 2^64).
C9_SelectionByIndex ==
    (bpc # "query" /\ SavedIsNumber /\ FitsUsize(SavedDigits)) => SelectedByIndex

\* C9 witness: the value 01 selects the second of the entries.
C9_Witness ==
    /\ bpc = "ok" /\ SavedIsNumber
    /\ SavedDigits = <<"1">>
    /\ Len(catalog.entries) >= 2
    /\ selected(catalog) = <<catalog.entries[2].entry>>
    /\ catalog.entries[1].entry # catalog.entries[2].entry

\* the build failed with a parse error and returned no catalog
FailedToParse ==
    /\ bpc = "err"
    /\ catalog.ok = FALSE
    /\ catalog.err.kind = "grub_parse_error"

\* the build returned all entries of the menu source and no selection
BuiltWithoutSelection ==
    /\ bpc = "ok"
    /\ catalog.entries = parse_entries(cfg[1])
    /\ catalog.selected = <<>>
    /\ selected(catalog) = <<>>

\* C10 as claimed: if some saved_entry line of the grubenv lacks '=' or has an
\* empty right-hand side, the build fails with a parse error; if the grubenv
\* has no saved_entry line, the build succeeds with all entries and no
\* selection.
C10_SelectionErrorsAsClaimed ==
    (bpc # "query" /\ cfg # <<>> /\ env # <<>>) =>
        LET ls == EnvLines
        IN  /\ (\E i \in 1..Len(ls) : StartsWith(ls[i], "saved_entry") /\ Malformed(ls[i]))
                   => FailedToParse
            /\ FirstSavedEntry(ls) = 0 => BuiltWithoutSelection

\* C10 amended: the build fails with a parse error if the first saved_entry
\* line of the grubenv lacks '=' or has an empty right-hand side; it succeeds
\* with all entries and no selection if the grubenv has no saved_entry line.
C10_SelectionErrors ==
    (bpc # "query" /\ cfg # <<>> /\ env # <<>>) =>
        LET ls == EnvLines
            at == FirstSavedEntry(ls)
        IN  /\ (at # 0 /\ Malformed(ls[at])) => FailedToParse
            /\ at = 0 => BuiltWithoutSelection

\* C10 witness: a grubenv whose saved_entry line has only whitespace after
\* '=', read with a menu source that has entries.
C10_Witness ==
    /\ FailedToParse
    /\ FirstSavedEntry(EnvLines) # 0
    /\ Find(EnvLines[FirstSavedEntry(EnvLines)], "=") # 0
    /\ parse_entries(cfg[1]) # <<>>

---------------------------------------------------------------------------
(* C11: the selection is the name of an entry of the catalog *)

\* the text v writes an integer: decimal digits, with an optional sign before
IsNumeric(v) ==
    LET body == IF v # <<>> /\ Head(v) \in {"+", "-"} THEN Tail(v) ELSE v
    IN  body # <<>> /\ \A i \in 1..Len(body) : body[i] \in Digits

\* the names of the entries of the catalog c
NamesOf(c) == {c.entries[i].entry : i \in 1..Len(c.entries)}

\* C11: in every catalog a build returns, selected() is absent or the name of
\* an entry of the catalog; when the saved_entry value is not a number, an
\* entry is selected exactly when its name equals the value, and a value that
\* equals only the full path of an entry selects nothing.
C11_SelectionValidity ==
    bpc = "ok" =>
        /\ selected(catalog) = <<>> \/ selected(catalog)[1] \in NamesOf(catalog)
        /\ catalog.selected = <<>> \/ \E i \in 1..Len(catalog.entries) :
                                         catalog.selected[1] = catalog.entries[i]
        /\ LET ls == EnvLines
               at == FirstSavedEntry(ls)
           IN  (at # 0 /\ ~IsNumeric(RightHandSide(ls[at]))) =>
                   LET v == RightHandSide(ls[at])
                   IN  /\ v \in NamesOf(catalog) => selected(catalog) = <<v>>
                       /\ v \notin NamesOf(catalog) => selected(catalog) = <<>>

\* C11 witness: the value A selects the entry A of the submenu S, whose full
\* path is S>A.
C11_Witness ==
    /\ bpc = "ok"
    /\ selected(catalog) = <<<<"A">>>>
    /\ full_path(catalog.selected[1]) = <<"S", ">", "A">>
    /\ RightHandSide(EnvLines[FirstSavedEntry(EnvLines)]) = <<"A">>

---------------------------------------------------------------------------
(* C12..C17: the event coordinator *)

\* some of the first n events of the batch b is a MODIFY named grub or grubenv
QualifiesWithin(b, n) == \E j \in 1..n : Qualifies(b.events[j])

\* the for loop is through with the batch read last
BatchDone == nread > 0 /\ filesPc \in {"while", "read", "ok", "panicked"}

\* the task is through with the batch read last: the for loop is, or the
\* task ended in it with an error
BatchOver == BatchDone \/ (nread > 0 /\ filesPc = "err")

\* an emission is begun and neither sent nor failed yet, or it failed
EmissionOpen == filesPc \in FilesAwaits \cup {"err"}

\* C12 as claimed: for each batch read_events returns, the number of
\* file_changed notifications emitted is 1 if the batch holds a MODIFY event
\* named grub or grubenv and 0 otherwise, however many such events it holds.
C12_DeduplicationAsClaimed ==
    BatchOver =>
        batch.sent = IF QualifiesWithin(batch, Len(batch.events)) THEN 1 ELSE 0

\* C12 amended: for each batch one emission of file_changed is begun, at its
\* first MODIFY event named grub or grubenv, if it holds such an event and
\* none otherwise, however many such events it holds; the notification is
\* emitted when that emission succeeds, so a batch the loop is through with
\* has 1 notification if it holds such an event and 0 otherwise, and a batch
\* whose emission failed has 0 and ended the task at that event; every batch
\* is counted on its own.
C12_Deduplication ==
    nread > 0 =>
        /\ batch.emits = IF QualifiesWithin(batch, batch.seen) THEN 1 ELSE 0
        /\ batch.sent = IF batch.emits = 1 /\ ~EmissionOpen THEN 1 ELSE 0
        /\ BatchDone =>
              /\ batch.seen = Len(batch.events)
              /\ batch.sent = IF QualifiesWithin(batch, Len(batch.events)) THEN 1 ELSE 0
        /\ filesPc = "err" => /\ Qualifies(batch.events[batch.seen])
                              /\ ~QualifiesWithin(batch, batch.seen - 1)
                              /\ batch.sent = 0
        /\ attempts <= nread
        /\ sent = attempts - (IF EmissionOpen THEN 1 ELSE 0)

\* C12 witness: the second of two batches is done; it holds two qualifying
\* events and one notification was emitted for it, as for the batch before.
C12_Witness ==
    /\ BatchDone
    /\ nread = 2
    /\ Len(batch.events) = 2
    /\ Qualifies(batch.events[1]) /\ Qualifies(batch.events[2])
    /\ batch.emits = 1
    /\ batch.sent = 1
    /\ attempts = 2
    /\ sent = 2

\* C13 as claimed: once the shutdown flag is true, the task of listen_files
\* that is in its loop makes at most one further read_events call and returns
\* Ok(()).
C13_ShutdownObservedAsClaimed ==
    /\ [](late <= 1)
    /\ (shutdown /\ filesPc \in Looping) ~> (filesPc = "ok")

\* C13 amended: once the shutdown flag is true, the task of listen_files that
\* is in its loop makes at most one further read_events call and ends; the
\* loop test that sees the flag returns Ok(()), so the task ends otherwise
\* only when the iteration under way fails (read_events fails, or the
\* emission for a batch it read fails).
C13_ShutdownObserved ==
    /\ [](late <= 1)
    /\ (shutdown /\ filesPc \in Looping) ~> (filesPc \in Finished)
    /\ [][(shutdown /\ filesPc = "while") => filesPc' \in {"while", "ok"}]_vars
    /\ [][(shutdown /\ filesPc = "read" /\ filesPc' = "while" /\ nread' = nread)
             => late' = 1]_vars

\* C13 witness: the idle timeout ended the wait of main, the flag was set
\* while the task was about to read, the read would block, and the task
\* returned Ok(()) with no event ever read.
C13_Witness ==
    /\ shutdown
    /\ filesPc = "ok"
    /\ late = 1
    /\ nread = 0
    /\ timeout # <<>>

\* C14: whenever main is in, or past, the wait of graceful_shutdown, the
\* coordinator has been dropped and holds no clone of the connection.
C14_ShutdownOrdering ==
    mainPc \in {"graceful", "done"} => /\ "events" \notin holders
                                       /\ shutdown

\* C14 witness: main waits in graceful_shutdown while a task still owns its
\* clone.
C14_Witness ==
    /\ mainPc = "graceful"
    /\ "events" \notin holders
    /\ "listen_files" \in holders
    /\ filesPc \in Looping

\* C15: after the wait of main is over, for either reason, the clones of the
\* connection that the coordinator and the two tasks hold are all dropped
\* in the end, and graceful_shutdown returns.
C15_ShutdownCompletes ==
    /\ (mainPc = "signal") ~> (holders \subseteq {"main"})
    /\ (mainPc = "signal") ~> (mainPc = "done")
    /\ [](mainPc = "done" => holders = {})

\* C15 witness: main is through after the idle timeout, and the task of
\* listen_files, which was in its loop, has returned.
C15_Witness ==
    /\ mainPc = "done"
    /\ holders = {}
    /\ event_res = "ok"
    /\ timeout # <<>>
    /\ filesPc = "ok"
    /\ nread > 0

\* no emission is made after the one that failed, and the task stays over
NoFurtherEmission ==
    /\ [](filesPc = "err" => attempts = sent + 1)
    /\ [][filesPc = "err" =>
             (filesPc' = "err" /\ attempts' = attempts /\ sent' = sent)]_vars

\* C16 as claimed: if an emission of file_changed fails, the task ends with
\* the error and emits nothing further, the wait of main returns that error,
\* and main sets the flag, waits in graceful_shutdown and returns.
C16_EmissionFailureAsClaimed ==
    /\ NoFurtherEmission
    /\ (filesPc = "err") ~> (mainPc = "done" /\ shutdown /\ event_res = "err")

\* C16 amended: the same, but the wait of main returns that error only when
\* the task of detect_idle_connection is not over before main takes the
\* result; in every case main sets the flag, waits in graceful_shutdown and
\* returns.
C16_EmissionFailure ==
    /\ NoFurtherEmission
    /\ (filesPc = "err") ~> (mainPc = "done" /\ shutdown /\ holders = {})
    /\ [][(mainPc = "select" /\ mainPc' = "signal" /\ filesPc = "err"
              /\ idlePc \notin Finished) => event_res' = "err"]_vars
    /\ [](timeout = <<>> /\ filesPc = "err" /\ mainPc \in {"signal", "graceful", "done"}
             => event_res = "err")

\* C16 witness: the emission for the second batch failed after the one for
\* the first succeeded, and main is through with the error.
C16_Witness ==
    /\ filesPc = "err"
    /\ nread = 2
    /\ sent = 1
    /\ attempts = 2
    /\ mainPc = "done"
    /\ event_res = "err"

\* C17: if a watch cannot be set up, the task never enters its loop, no
\* emission is ever made, the task is not started again, and main goes
\* through its shutdown and returns.
C17_WatchSetupFailure ==
    /\ [](filesPc = "setup_failed" => (attempts = 0 /\ sent = 0 /\ nread = 0 /\ late = 0))
    /\ [][filesPc = "setup_failed" => filesPc' = "setup_failed"]_vars
    /\ [](filesPc = "setup_failed" /\ mainPc \in {"signal", "graceful", "done"}
             /\ idlePc \notin Finished => event_res = "err")
    /\ (filesPc = "setup_failed") ~> (mainPc = "done" /\ shutdown /\ holders = {})

\* C17 witness: the setup failed with no idle time allowed, and main is
\* through with the error.
C17_Witness ==
    /\ filesPc = "setup_failed"
    /\ timeout = <<>>
    /\ mainPc = "done"
    /\ event_res = "err"
    /\ attempts = 0

---------------------------------------------------------------------------
(* C18, C19: the time argument *)

\* the decimal digit of a number below ten
DigitChar(n) ==
    CASE n = 0 -> "0" [] n = 1 -> "1" [] n = 2 -> "2" [] n = 3 -> "3" [] n = 4 -> "4"
      [] n = 5 -> "5" [] n = 6 -> "6" [] n = 7 -> "7" [] n = 8 -> "8" [] n = 9 -> "9"

\* the decimal digits of a u64 of four limbs, <<>> for zero
RECURSIVE ToDecimal(_)
ToDecimal(x) ==
    IF x = U64Zero THEN <<>>
    ELSE LET c4 == x[4]
             c3 == (c4 % 10) * Limb + x[3]
             c2 == (c3 % 10) * Limb + x[2]
             c1 == (c2 % 10) * Limb + x[1]
         IN  ToDecimal(<<c1 \div 10, c2 \div 10, c3 \div 10, c4 \div 10>>)
                 \o <<DigitChar(c1 % 10)>>

\* the decimal digits of k times the number of the digits ds plus carry, k <= 36
RECURSIVE DecTimes(_, _, _)
DecTimes(ds, k, carry) ==
    IF ds = <<>> THEN (IF carry = 0 THEN <<>> ELSE DecTimes(<<>>, k, carry \div 10)
                                                     \o <<DigitChar(carry % 10)>>)
    ELSE LET p == DigitVal(ds[Len(ds)]) * k + carry
         IN  DecTimes(SubSeq(ds, 1, Len(ds) - 1), k, p \div 10) \o <<DigitChar(p % 10)>>

\* the argument without the blanks around it, and its three parts: the
\* digits at its start, the white space after them, and the rest
ArgText == Trim(targ)
ArgDigits == SubSeq(ArgText, 1, CountDigits(ArgText))
ArgGap ==
    LET rest == SubSeq(ArgText, Len(ArgDigits) + 1, Len(ArgText))
    IN  SubSeq(rest, 1, CountWhitespace(rest))
ArgUnit == SubSeq(ArgText, Len(ArgDigits) + Len(ArgGap) + 1, Len(ArgText))

Seconds == {<<"s">>, <<"s", "e", "c">>, <<"s", "e", "c", "o", "n", "d">>}
Minutes == {<<"m">>, <<"m", "i", "n">>, <<"m", "i", "n", "u", "t", "e">>}
Hours == {<<"h">>, <<"h", "o", "u", "r">>}

\* the unit u in lower case
Lowered(u) == [i \in 1..Len(u) |-> LowerChar(u[i])]

\* the unit of the argument is one of the units, in any letter case
UnitKnown == Lowered(ArgUnit) \in Seconds \cup Minutes \cup Hours

\* the time value of the argument is a number above zero
ValuePositive == ArgDigits # <<>> /\ StripZeros(ArgDigits) # <<>>

\* the decimal digits of the time value times 1000, 60000 or 3600000
ExpectedMilliseconds ==
    LET n == StripZeros(ArgDigits)
        u == Lowered(ArgUnit)
    IN  IF u \in Seconds THEN n \o <<"0", "0", "0">>
        ELSE IF u \in Minutes THEN DecTimes(n, 6, 0) \o <<"0", "0", "0", "0">>
        ELSE DecTimes(n, 36, 0) \o <<"0", "0", "0", "0", "0">>

\* from_str returned the milliseconds of the argument
ReturnsMilliseconds ==
    /\ tres.t = "Ok"
    /\ ToDecimal(tres.milliseconds) = ExpectedMilliseconds

\* C18 as claimed: on <digits n, n > 0><optional white space><unit>, with a
\* unit out of s/sec/second, m/min/minute, h/hour in any letter case,
\* from_str returns n times 1000, 60000 or 3600000 milliseconds, for every n
\* whose product fits in 64 bits.
C18_MillisecondsAsClaimed ==
    (tpc = "done" /\ ValuePositive /\ UnitKnown /\ FitsUsize(ExpectedMilliseconds))
        => ReturnsMilliseconds

\* C18 for white space of one byte: the same, when the white space between
\* the digits and the unit is ASCII.
C18_Milliseconds ==
    (tpc = "done" /\ ValuePositive /\ UnitKnown /\ FitsUsize(ExpectedMilliseconds)
        /\ \A i \in 1..Len(ArgGap) : ByteLen(ArgGap[i]) = 1)
        => ReturnsMilliseconds

\* C18 witness: the largest number of minutes whose milliseconds fit in 64
\* bits, with white space before a unit in mixed case.
C18_Witness ==
    /\ tpc = "done"
    /\ ArgDigits = <<"3", "0", "7", "4", "4", "5", "7", "3", "4", "5", "6", "1", "8", "2", "5">>
    /\ ArgGap = <<" ", "\t">>
    /\ ArgUnit = <<"M", "i", "N">>
    /\ ReturnsMilliseconds

\* the cases of C19: an empty argument, no digit at the start, a zero time
\* value, a missing or unknown unit
BadArgument ==
    \/ ArgText = <<>>
    \/ ArgDigits = <<>>
    \/ StripZeros(ArgDigits) = <<>>
    \/ ~UnitKnown

\* C19 as claimed: from_str returns an error, never a value, when the
\* argument is empty or only white space, does not start with a digit, has a
\* zero time value, or has a missing or unrecognised unit.
C19_ErrorsAsClaimed == (tpc = "done" /\ BadArgument) => tres.t = "Err"

\* C19 for the arguments from_str does not panic on: the same, when the time
\* value fits in 64 bits and the white space before the unit is ASCII; and on
\* no argument of C19 does from_str return a value.
C19_Errors ==
    /\ (tpc = "done" /\ BadArgument) => tres.t # "Ok"
    /\ (tpc = "done" /\ BadArgument /\ FitsUsize(StripZeros(ArgDigits))
           /\ \A i \in 1..Len(ArgGap) : ByteLen(ArgGap[i]) = 1)
          => tres.t = "Err"

\* C18 failing argument: 1, a no-break space, s.
C18_Failure ==
    /\ tpc = "done"
    /\ targ = <<"1", "NBSP", "s">>
    /\ tres.t = "Panic"

\* C19 failing argument: 2^64 without a unit.
C19_Failure ==
    /\ tpc = "done"
    /\ targ = Huge
    /\ tres = TimePanic("called Result::unwrap() on an Err value")

\* C19 witness: a time value of zeros with a unit gives the error of a zero
\* time.
C19_Witness ==
    /\ tpc = "done"
    /\ ArgDigits = <<"0", "0">>
    /\ UnitKnown
    /\ tres = TimeErr("Time cannot be zero.")

---------------------------------------------------------------------------
(* C20: the mapping and the sequence of lines agree *)

\* the entry e of the mapping under the key k is the entry of the line that
\* e.line names
PointsAtItsLine(d, k) ==
    LET e == d.keyvals[k]
    IN  /\ e.key = k
        /\ e.line + 1 \in 1..Len(d.lines)
        /\ d.lines[e.line + 1].t = "KeyValue"
        /\ d.lines[e.line + 1].kv.key = e.key
        /\ d.lines[e.line + 1].kv.value = e.value
        /\ d.lines[e.line + 1].kv.changed = e.changed

\* C20: in every state reached from a successful parse by set_key_value
\* calls, every entry of the mapping has a line index inside the sequence,
\* and the line at that index is an entry of the same key, the same value and
\* the same changed flag.
C20_MappingConsistency ==
    fpc = "doc" => \A k \in DOMAIN doc.keyvals : PointsAtItsLine(doc, k)

\* C20 witness: after two calls, one that changed the value of a key of the
\* file and one that added a key, the mapping has two entries, one changed
\* in place and one at the last line.
C20_Witness ==
    /\ fpc = "doc"
    /\ edits = 2
    /\ SetExisting
    /\ last.pre.keyvals[last.key].value # last.value
    /\ last.pre.keyvals[last.key].line + 1 < Len(doc.lines)
    /\ Cardinality(DOMAIN doc.keyvals) >= 2
    /\ \E k \in DOMAIN doc.keyvals : doc.keyvals[k].line + 1 = Len(doc.lines)

---------------------------------------------------------------------------
(* C21..C24: the wait of listen_events, the flag and the idle counter *)

\* what the task of listen_files hands to the select, read off its end
FilesOutcome == IF filesPc = "ok" THEN "ok" ELSE "err"

\* C21: with an allowed idle time, listen_events returns as soon as one of the
\* two tasks is over: its return is possible in every state of the wait in
\* which a task is over, whatever the other task does, and it never happens
\* with both tasks running; the result is that of a task that is over.
C21_FirstOfTwo ==
    /\ [](mainPc = "select" /\ timeout # <<>>
             /\ (filesPc \in Finished \/ idlePc \in Finished) => ENABLED Select)
    /\ [][(mainPc = "select" /\ mainPc' = "signal" /\ timeout # <<>>) =>
             \/ filesPc \in Finished /\ event_res' = FilesOutcome
             \/ idlePc \in Finished /\ event_res' = "ok"]_vars

\* C21 witness: the emission of the task of listen_files failed, main took
\* the error and set the flag, and the task of detect_idle_connection is
\* still in its loop.
C21_Witness ==
    /\ timeout # <<>>
    /\ mainPc = "graceful"
    /\ shutdown
    /\ event_res = "err"
    /\ filesPc = "err"
    /\ idlePc = "while"
    /\ "detect_idle_connection" \in holders

\* listen_events has not returned to main
Listening == mainPc \in {"new", "listen", "select"}

\* C22: the flag is false as long as listen_events has not returned; it is
\* written only by main in signal_shutdown, never by a step of one of the two
\* tasks; and once true it stays true.
C22_FlagLatch ==
    /\ [](Listening => ~shutdown)
    /\ [][shutdown' # shutdown => (mainPc = "signal" /\ mainPc' = "graceful")]_vars
    /\ [][(FilesNext \/ IdleNext) => shutdown' = shutdown]_vars
    /\ [][shutdown => shutdown']_vars

\* C22 witness: the idle time ran out, the flag is set, both tasks are over
\* and main is through.
C22_Witness ==
    /\ shutdown
    /\ mainPc = "done"
    /\ timeout # <<>>
    /\ idlePc = "ok"
    /\ counter >= timeout[1]
    /\ filesPc = "ok"
    /\ sent > 0

\* ceil(t / 100): the number of intervals that make up the idle time t
IntervalsOf(t) == (t + Interval - 1) \div Interval

\* C23: with an idle time of t milliseconds and the flag false, the task of
\* detect_idle_connection leaves its loop exactly when the latest
\* ceil(t / 100) intervals in a row observed no activity: at the test of the
\* loop it leaves with that many quiet intervals and waits again with fewer;
\* an interval without activity adds 100 to the counter and an interval that
\* observes activity sets it back to zero, so the counter is always 100 times
\* the number of the latest quiet intervals.
C23_IdleCounter ==
    /\ [](idlePc \in {"while", "wait", "ok"} /\ timeout # <<>> =>
             /\ counter = Interval * quiet
             /\ quiet <= IntervalsOf(timeout[1]))
    /\ [][(idlePc = "while" /\ idlePc' = "ok" /\ ~shutdown) =>
             quiet = IntervalsOf(timeout[1])]_vars
    /\ [][(idlePc = "while" /\ ~shutdown /\ IdleNext) =>
             idlePc' = (IF quiet = IntervalsOf(timeout[1]) THEN "ok" ELSE "wait")]_vars
    /\ [][(idlePc = "wait" /\ IdleNext) =>
             /\ idlePc' = "while"
             /\ counter' = (IF active' = active THEN counter + Interval ELSE 0)
             /\ quiet' = (IF active' = active THEN quiet + 1 ELSE 0)]_vars

\* C23 witness: with an idle time of 150 ms, one quiet interval was followed
\* by activity, two more quiet intervals followed, and the task is over with
\* the flag still false.
C23_Witness ==
    /\ timeout = <<150>>
    /\ idlePc = "ok"
    /\ ~shutdown
    /\ active = 1
    /\ quiet = 2
    /\ counter = 200

\* C24 as claimed: without an allowed idle time the task of
\* detect_idle_connection never enters its loop and returns Ok(()) at once,
\* and main leaves its wait only when the task of listen_files is over, with
\* the result of that task.
C24_NoIdleTimeoutAsClaimed ==
    /\ [](timeout = <<>> => idlePc \in {"unspawned", "spawned", "ok"})
    /\ (timeout = <<>> /\ idlePc = "spawned") ~> (idlePc = "ok")
    /\ [][(timeout = <<>> /\ mainPc = "select" /\ mainPc' = "signal") =>
             (filesPc \in Finished /\ event_res' = FilesOutcome)]_vars
    /\ [](timeout = <<>> /\ ~Listening => filesPc \in Finished)

\* C24 failure: on a runtime of one worker, without an allowed idle time, the
\* task of listen_files has read a batch, sent its signal and is back in its
\* loop, and the task of detect_idle_connection, spawned with it, has not
\* been polled: it has not returned and still owns its clone.
C24_Failure ==
    /\ workers = 1
    /\ timeout = <<>>
    /\ mainPc = "select"
    /\ ~shutdown
    /\ filesPc = "read"
    /\ nread > 0
    /\ sent > 0
    /\ idlePc = "spawned"
    /\ "detect_idle_connection" \in holders

---------------------------------------------------------------------------
(* C25..C27: the loop of parse_entries, line by line *)

\* the lines of the menu source the loop reads
SourceLines == Lines(cfg[1])

\* the line the next iteration reads, trimmed
CurrentLine == Trim(SourceLines[pos + 1])

\* an iteration of the loop is taken
Reads == bpc = "parse" /\ pos < Len(SourceLines) /\ pos' = pos + 1

\* the locals of parse_entries when the loop has read the first k lines
Before(k) == ParseLoop(ParseStart, SubSeq(SourceLines, 1, k))

\* C25: on a line that starts with a closing brace, an open entry is closed
\* and the submenu stack is left alone; with no entry open the innermost
\* submenu, and only that, is removed, and on an empty stack nothing changes;
\* the entries are left alone and the build does not fail.
C25_ClosingBrace ==
    /\ [][(Reads /\ StartsWith(CurrentLine, "}")) =>
             /\ pst'.entries = pst.entries
             /\ ~pst'.menuentry_open
             /\ pst.menuentry_open => pst'.submenus = pst.submenus
             /\ (~pst.menuentry_open /\ pst.submenus = <<>>) => pst' = pst
             /\ (~pst.menuentry_open /\ pst.submenus # <<>>) =>
                    pst.submenus = pst'.submenus \o <<pst.submenus[Len(pst.submenus)]>>]_vars
    /\ [](bpc \in {"parse", "ok"})
    /\ [](bpc = "ok" => catalog.ok)

\* C25 witness: inside the submenus S and T a closing brace, met with no
\* entry open, removed T and left S.
C25_Witness ==
    /\ pos = 3
    /\ SourceLines[3] = <<"}">>
    /\ Before(2).submenus = <<<<"S">>, <<"T">>>>
    /\ ~Before(2).menuentry_open
    /\ pst.submenus = <<<<"S">>>>

\* a line that starts with the keyword kw and that the regex of kw does not
\* match
IllFormed(line, kw) == StartsWith(line, kw) /\ RegexCapture(line, kw) = <<>>

\* C26 as claimed: a line that starts with menuentry or submenu and does not
\* match the quoted-name grammar leaves the entries, the submenu stack and
\* the open-entry flag as they were, and the build does not fail.
C26_IllFormedSkippedAsClaimed ==
    /\ [][(Reads /\ (IllFormed(CurrentLine, "menuentry") \/ IllFormed(CurrentLine, "submenu")))
             => pst' = pst]_vars
    /\ [](bpc \in {"parse", "ok"})

\* C26 amended: such a line leaves the entries and the submenu stack as they
\* were and the build does not fail; an ill-formed submenu line leaves the
\* open-entry flag as it was, an ill-formed menuentry line sets it.
C26_IllFormedSkipped ==
    /\ [][(Reads /\ IllFormed(CurrentLine, "submenu")) => pst' = pst]_vars
    /\ [][(Reads /\ IllFormed(CurrentLine, "menuentry")) =>
             pst' = [pst EXCEPT !.menuentry_open = TRUE]]_vars
    /\ [](bpc \in {"parse", "ok"})
    /\ [](bpc = "ok" => catalog.ok /\ catalog.entries = parse_entries(cfg[1]))

\* C26 witness: inside the submenu S, with no entry open, an ill-formed
\* menuentry line was read: no entry, the stack as before, the flag set.
C26_Witness ==
    /\ pos = 2
    /\ SourceLines[2] = BadMenuEntryLine(<<"B">>)
    /\ ~Before(1).menuentry_open
    /\ pst = [entries |-> <<>>, submenus |-> <<<<"S">>>>, menuentry_open |-> TRUE]

\* the line opens a brace block
Opens(line) == line # <<>> /\ line[Len(line)] = "{"

\* the line closes a brace block
Closes(line) == StartsWith(Trim(line), "}")

\* the number of blocks open after the first k lines
RECURSIVE Depth(_, _)
Depth(ls, k) ==
    IF k = 0 THEN 0
    ELSE Depth(ls, k - 1) + (IF Opens(ls[k]) THEN 1 ELSE 0) - (IF Closes(ls[k]) THEN 1 ELSE 0)

\* every closing brace closes a block, and every block is closed
Balanced(ls) ==
    /\ \A k \in 1..Len(ls) : Depth(ls, k) >= 0
    /\ Depth(ls, Len(ls)) = 0

\* the line that closes the block the line i opens, in a balanced source
Match(ls, i) ==
    CHOOSE j \in (i + 1)..Len(ls) :
        /\ Depth(ls, j) = Depth(ls, i - 1)
        /\ \A m \in i..(j - 1) : Depth(ls, m) > Depth(ls, i - 1)

\* the line i is inside the block the line b opens
Inside(ls, i, b) == b < i /\ i < Match(ls, b)

\* the names of the well-formed submenu lines, from the line i on, whose
\* block encloses the line e, outermost first
RECURSIVE SubmenuNames(_, _, _)
SubmenuNames(ls, i, e) ==
    IF i >= e THEN <<>>
    ELSE (IF /\ StartsWith(Trim(ls[i]), "submenu")
             /\ ~IllFormed(Trim(ls[i]), "submenu")
             /\ Inside(ls, e, i)
          THEN <<RegexCapture(Trim(ls[i]), "submenu")[1]>>
          ELSE <<>>) \o SubmenuNames(ls, i + 1, e)

\* the well-formed menuentry lines of ls, in order
EntryLines(ls) ==
    {i \in 1..Len(ls) : StartsWith(Trim(ls[i]), "menuentry") /\ ~IllFormed(Trim(ls[i]), "menuentry")}

\* the ill-formed submenu lines of ls
BadSubmenus(ls) == {i \in 1..Len(ls) : IllFormed(Trim(ls[i]), "submenu")}

\* a source whose blocks are well-formed entries that hold no block, and
\* submenus, well formed or ill formed, that hold such blocks
PlainNesting(ls) ==
    /\ Balanced(ls)
    /\ \A i \in 1..Len(ls) :
          StartsWith(Trim(ls[i]), "menuentry") =>
              /\ ~IllFormed(Trim(ls[i]), "menuentry")
              /\ Match(ls, i) = i + 1

\* the i-th entry of the catalog, counted among the entry lines of ls
EntryOfLine(ls, i) == Cardinality({j \in EntryLines(ls) : j <= i})

\* C27 as claimed: in a brace-balanced source, when the block an ill-formed
\* submenu line opened has been closed, the submenu stack is what it was
\* before that line; and in a source of plainly nested blocks every entry
\* outside the blocks of ill-formed submenu lines has the path of the
\* well-formed submenu blocks that enclose it.
C27_NestingAsClaimed ==
    /\ bpc = "parse" /\ Balanced(SourceLines) =>
          \A i \in BadSubmenus(SourceLines) :
              Match(SourceLines, i) <= pos =>
                  Before(Match(SourceLines, i)).submenus = Before(i - 1).submenus
    /\ bpc = "ok" /\ PlainNesting(SourceLines) =>
          \A e \in EntryLines(SourceLines) :
              (\A b \in BadSubmenus(SourceLines) : ~Inside(SourceLines, e, b)) =>
                  catalog.entries[EntryOfLine(SourceLines, e)].submenus
                      = SubmenuNames(SourceLines, 1, e)

\* C27 failure: in the submenu S an ill-formed submenu block was opened and
\* closed, and the entry A that follows it inside S has no submenu.
C27_Failure ==
    /\ bpc = "ok"
    /\ SourceLines = <<SubmenuLine(<<"S">>), BadSubmenuLine(<<"U">>), <<"}">>,
                       MenuEntryLine(<<"A">>), <<"}">>, <<"}">>>>
    /\ PlainNesting(SourceLines)
    /\ catalog.entries = <<GrubBootEntry_new(<<"A">>, <<>>)>>
    /\ full_path(catalog.entries[1]) = <<"A">>

---------------------------------------------------------------------------
(* C28: set_key_value on a document rebuilt by from_lines *)

\* C28 as claimed: on a document from_lines built, set_key_value on a key
\* the mapping holds does not panic, and it rewrites the last line of the
\* sequence that holds the key, and no other line.
C28_FromLinesAsClaimed ==
    SetExisting =>
        /\ fpc # "panicked"
        /\ doc.lines =
              [last.pre.lines EXCEPT ![LastLineOfKey(last.pre, last.key)] =
                  LineKeyValue(KeyValue_update(@.kv, last.value))]

\* C28 failure: from_lines was given one entry, of key a and line index 1,
\* and the first set_key_value on a panicked.
C28_Failure ==
    /\ fpc = "panicked"
    /\ edits = 1
    /\ SetExisting
    /\ last.key = <<"a">>
    /\ Len(last.pre.lines) = 1
    /\ last.pre.lines[1].kv.line = 1
    /\ last.pre.keyvals[<<"a">>].line = 1

---------------------------------------------------------------------------
(* C29: an edit survives writing and parsing again *)

\* the key has no '=' and no white space at its ends
KeyAsClaimed(k) == Find(k, "=") = 0 /\ Trim(k) = k

\* the value has no quote and no newline
ValueAsClaimed(v) == \A i \in 1..Len(v) : v[i] \notin {"\"", "'", "\n"}

\* the key, besides, does not start with '#' and has no newline
KeyWritable(k) ==
    /\ KeyAsClaimed(k)
    /\ ~StartsWith(k, "#")
    /\ Find(k, "\n") = 0

\* the text written after the edit parses, and its mapping gives the key of
\* the edit the value of the edit
EditReadBack ==
    /\ last.again.ok
    /\ last.key \in DOMAIN keyvalues(last.again.doc)
    /\ keyvalues(last.again.doc)[last.key].value = last.value

\* C29 as claimed: for a parsed document, a key without '=' and without white
\* space at its ends and a value without quotes and newlines, the text
\* as_string gives after set_key_value(key, value) parses, and its mapping
\* gives the key that value.
C29_EditSurvivesAsClaimed ==
    (fpc = "reparsed" /\ KeyAsClaimed(last.key) /\ ValueAsClaimed(last.value)) => EditReadBack

\* C29 amended: the same for a key that, besides, does not start with '#'
\* and holds no newline.
C29_EditSurvives ==
    (fpc = "reparsed" /\ KeyWritable(last.key) /\ ValueAsClaimed(last.value)) => EditReadBack

\* C29 witness: the document of the line a= and a comment line had the value
\* of a changed, and the text written, parsed again, gives a the new value.
C29_Witness ==
    /\ fpc = "reparsed"
    /\ file = <<"a", "=", "\n", "#">>
    /\ last.key = <<"a">>
    /\ last.key \in DOMAIN last.pre.keyvals
    /\ last.value = <<" ", "a", " ">>
    /\ last.pre.keyvals[last.key].value # last.value
    /\ EditReadBack
    /\ as_string(doc) # file

---------------------------------------------------------------------------
(* C30: the changed flag only ever goes from false to true *)

\* the entries of the lines of d, by position
EntryPositions(d) == {i \in 1..Len(d.lines) : d.lines[i].t = "KeyValue"}

\* the value GrubFile::new read from the i-th line of the file
ParsedValue(i) == KeyValue_new(i - 1, Split(file, "\n")[i]).kv.value

\* C30: over any sequence of set_key_value calls the changed flag of an entry,
\* in the sequence and in the mapping, never goes back from true to false,
\* and it is set only by a call that changes the value; so an entry whose
\* flag is set is written as key="value", even when its value is again the
\* one that was parsed, and an entry whose value was never changed has the
\* flag clear and is written as its original text.
C30_DirtyMonotone ==
    /\ [][(fpc = "doc" /\ fpc' = "doc") =>
             /\ \A i \in EntryPositions(doc) :
                   /\ i \in EntryPositions(doc')
                   /\ doc.lines[i].kv.changed => doc'.lines[i].kv.changed
                   /\ doc'.lines[i].kv.changed # doc.lines[i].kv.changed =>
                          doc'.lines[i].kv.value # doc.lines[i].kv.value
             /\ \A k \in DOMAIN doc.keyvals :
                   doc.keyvals[k].changed => doc'.keyvals[k].changed]_vars
    /\ [](fpc = "doc" /\ last.op = "new" =>
             \A i \in EntryPositions(doc) : ~doc.lines[i].kv.changed)
    /\ [](fpc = "doc" =>
             \A i \in EntryPositions(doc) :
                 LET kv == doc.lines[i].kv
                 IN  /\ kv.changed => GrubLineToString(doc.lines[i]) = Normalized(kv.key, kv.value)
                     /\ ~kv.changed =>
                            /\ i <= Len(Split(file, "\n"))
                            /\ GrubLineToString(doc.lines[i]) = Split(file, "\n")[i]
                            /\ kv.value = ParsedValue(i))

\* C30 witness: the file is the line a=; its value was changed to a and then
\* set back to the empty value that was parsed: the flag is still set and the
\* line is written as a="" and not as a=.
C30_Witness ==
    /\ fpc = "doc"
    /\ file = <<"a", "=">>
    /\ edits = 2
    /\ last.pre.lines[1].kv.value = <<"a">>
    /\ last.pre.lines[1].kv.changed
    /\ doc.lines[1].kv.value = ParsedValue(1)
    /\ doc.lines[1].kv.changed
    /\ as_string(doc) = <<"a", "=", "\"", "\"">>

---------------------------------------------------------------------------
(* C31: the key and the value of an entry line *)

IsQuote(c) == c \in {"'", "\""}
NotQuote(c) == ~IsQuote(c)

\* s without the quote characters at its start
RECURSIVE StripQuotesStart(_)
StripQuotesStart(s) ==
    IF s # <<>> /\ IsQuote(Head(s)) THEN StripQuotesStart(Tail(s)) ELSE s

\* s without the quote characters at its end
RECURSIVE StripQuotesEnd(_)
StripQuotesEnd(s) ==
    IF s # <<>> /\ IsQuote(s[Len(s)]) THEN StripQuotesEnd(SubSeq(s, 1, Len(s) - 1)) ELSE s

\* s without the quote characters that surround it
StripSurrounding(s) == StripQuotesEnd(StripQuotesStart(s))

\* the trimmed text of the i-th line of the file
TrimmedLine(i) == Trim(Split(file, "\n")[i])

\* the text of the i-th line before its first '='
TextBefore(i) == SubSeq(TrimmedLine(i), 1, Find(TrimmedLine(i), "=") - 1)

\* the text of the i-th line after its first '='
TextAfter(i) == SubSeq(TrimmedLine(i), Find(TrimmedLine(i), "=") + 1, Len(TrimmedLine(i)))

\* the positions of the lines of the file that are neither blank nor comments
EntryTexts == {i \in 1..Len(Split(file, "\n")) : IsEntryText(Split(file, "\n")[i])}

\* C31 as claimed: for a line that is neither blank nor a comment, the key is
\* the text of the trimmed line before its first '=', quotes included, and the
\* value is the text after it without the quote characters that surround it.
C31_EntryParsingAsClaimed ==
    Parsed =>
        \A i \in EntryTexts :
            /\ doc.lines[i].t = "KeyValue"
            /\ doc.lines[i].kv.key = TextBefore(i)
            /\ doc.lines[i].kv.value = StripSurrounding(TextAfter(i))

\* C31 amended: the same, but the value is the text after the first '=' with
\* every single and double quote character removed, wherever it stands; a
\* quoted empty value is the empty string.
C31_EntryParsing ==
    Parsed =>
        \A i \in EntryTexts :
            /\ doc.lines[i].t = "KeyValue"
            /\ doc.lines[i].kv.key = TextBefore(i)
            /\ doc.lines[i].kv.value = SelectSeq(TextAfter(i), NotQuote)
            /\ TextAfter(i) \in {<<"\"", "\"">>, <<"'", "'">>} => doc.lines[i].kv.value = <<>>

\* C31 witness: the line '="a": the key is the quote, kept, and
\* the value is a, its quotes removed.
C31_Witness ==
    /\ Parsed
    /\ file = <<"'", "=", "\"", "a", "\"">>
    /\ doc.lines[1].kv.key = <<"'">>
    /\ doc.lines[1].kv.value = <<"a">>
    /\ doc.keyvals[<<"'">>].value = <<"a">>

====
